---- MODULE Spec2Model ----
(***************************************************************************)
(* resource-state-metrics: the ResourceMetricsMonitor (RMM) controller,    *)
(* its event handler, the per-resource metric stores, the family renderer  *)
(* and the exposition writer.                                              *)
(*                                                                         *)
(* These specifications share the module:                                  *)
(*   Spec       the controller: API server objects, informer, workqueue,   *)
(*              workers running the event handler, the stores registry and *)
(*              the reflectors started by the builder;                     *)
(*   SpecStore  one parsed configuration: its stores, the rendering of     *)
(*              target objects into fragments, and the scrape.             *)
(*   SpecCalls  one store under the calls of its reflector and of the      *)
(*              scrape: items that are no objects, objects with lists,     *)
(*              stores given as literals;                                  *)
(*   SpecUnits  one unit at a time: reading the options, one CEL Resolve   *)
(*              call with its timer, Status.Set, and the resolver a metric *)
(*              inherits;                                                  *)
(*   SpecRunning  Spec started from the controller at rest with one RMM    *)
(*              monitored;                                                 *)
(*   SpecLive   Spec with every worker goroutine running on;               *)
(*   SpecStop   SpecLive with Run returning once the context is cancelled; *)
(*   SpecUnitsLive  SpecUnits with the evaluator goroutine running on;     *)
(*   SpecFeeds  concurrent scrapes and reflector calls on the stores of    *)
(*              one RMM, step by step through the locks of the stores;     *)
(*   SpecFeedsLive  SpecFeeds with every goroutine running on;             *)
(*   SpecLocks  SpecFeeds with a worker that rewrites the registry.        *)
(***************************************************************************)
EXTENDS Integers, Sequences, FiniteSets, TLC

\* ---------------------------------------------------------------- bounds

\* /metrics requests served in SpecLocks
MaxScrapes == 2
\* calls the reflectors make on the stores of SpecLocks
MaxFeeds == 2
\* events the worker of SpecLocks handles
MaxHandlings == 1

\* renders (Add/Update calls) the stores of SpecStore perform in all
MaxRenders == 3
\* times the handler is run on the RMM of SpecStore
MaxApply == 2
\* user writes (create, edit, delete) on RMMs in Spec
MaxUserOps == 2
\* informer relists in Spec
MaxRelist == 1
\* calls made on the store of SpecCalls
MaxCalls == 3
\* headers, and fragments per UID, of the stores SpecCalls is given as
\* literals
MaxFamilies == 2
\* ticks of the clock a call of Resolve is followed for
MaxClock == 4
\* calls of Status.Set on one status
MaxSets == 3

\* ---------------------------------------------------------------- helpers

Range(s) == {s[i] : i \in DOMAIN s}

RECURSIVE Flatten(_)
Flatten(ss) == IF ss = <<>> THEN <<>> ELSE Head(ss) \o Flatten(Tail(ss))

\* every ordering of the elements of a finite set (Go's map iteration order)
Orderings(S) ==
    {o \in [1..Cardinality(S) -> S] : \A i, j \in DOMAIN o : i # j => o[i] # o[j]}

\* ---------------------------------------------------------------- renderer

ResolverTypeCEL == "cel"
ResolverTypeUnstructured == "unstructured"
ResolverTypeNone == ""

kubeCustomResourcePrefix == "kube_customresource_"
metricTypeGauge == "gauge"

\* Target objects: one MyPlatform per UID; spec.replicas is the field that
\* changes between watch events.
ObjUIDs == {"x1", "x2"}
ReplicaValues == {"1", "2"}
Objects == [uid : ObjUIDs, replicas : ReplicaValues]

ObjGroup == "contoso.com"
ObjVersion == "v1alpha1"
ObjKind == "MyPlatform"

\* the scalar leaves of the object tree, by dotted path
ObjectFields(obj) ==
    ("metadata.name" :> obj.uid) @@ ("spec.replicas" :> obj.replicas)

\* the lists of scalars of the object tree, by dotted path; the objects of
\* SpecStore have none
ObjectLists(obj) ==
    IF "versions" \in DOMAIN obj
    THEN ("spec.versions" :> obj.versions) @@ ("spec.tags" :> obj.tags)
    ELSE << >>

\* query[strings.LastIndex(query, ".")+1:] of the list paths
FieldParent == ("spec.versions" :> "versions") @@ ("spec.tags" :> "tags")

\* the iteration order Go gives the keys of the expanded label set in the
\* current call; it is drawn anew for every call
VARIABLE mapOrder

\* the keys an expanded label set can have
ExpansionKeys == Range(FieldParent)

\* Unstructured resolver: a dotted path that reaches a scalar resolves to its
\* string form, anything else to the expression itself (the sentinel).
UnstructuredResolve(query, obj) ==
    IF query \in DOMAIN ObjectFields(obj)
    THEN query :> ObjectFields(obj)[query]
    ELSE query :> query

\* CELResolver.resolveList, resolveListInner: one entry per element, under
\* the field parent, "#" and the index
resolveList(list, fieldParent) ==
    [k \in {fieldParent \o "#" \o ToString(i - 1) : i \in DOMAIN list} |->
        list[CHOOSE i \in DOMAIN list : k = fieldParent \o "#" \o ToString(i - 1)]]

\* CEL resolver: the object is bound to the identifier o; a scalar resolves
\* under the query, a list through resolveList, anything else to the query
\* itself (defaultMapping)
CELResolve(query, obj) ==
    LET hit == {p \in DOMAIN ObjectFields(obj) : query = "o." \o p}
        lists == {p \in DOMAIN ObjectLists(obj) : query = "o." \o p}
    IN  IF hit # {}
        THEN query :> ObjectFields(obj)[CHOOSE p \in hit : TRUE]
        ELSE IF lists # {}
             THEN LET p == CHOOSE q \in lists : TRUE
                  IN  resolveList(ObjectLists(obj)[p], FieldParent[p])
             ELSE query :> query

Resolve(resolverInstance, query, obj) ==
    IF resolverInstance = ResolverTypeCEL
    THEN CELResolve(query, obj)
    ELSE UnstructuredResolve(query, obj)

\* the family's resolver taken before the metric's
FamilyResolverFamilyFirst(f, inheritedResolver) ==
    LET r == IF f.Resolver = ResolverTypeNone THEN inheritedResolver ELSE f.Resolver
    IN  IF r \in {ResolverTypeNone, ResolverTypeUnstructured}
        THEN [err |-> FALSE, resolver |-> ResolverTypeUnstructured]
        ELSE IF r = ResolverTypeCEL
             THEN [err |-> FALSE, resolver |-> ResolverTypeCEL]
             ELSE [err |-> TRUE, resolver |-> ResolverTypeNone]

\* FamilyType.resolver: the metric's resolver, else the family's, else
\* unstructured; an unknown name is an error.
FamilyResolver(f, inheritedResolver) ==
    LET r == IF inheritedResolver = ResolverTypeNone THEN f.Resolver
             ELSE inheritedResolver
    IN  IF r \in {ResolverTypeNone, ResolverTypeUnstructured}
        THEN [err |-> FALSE, resolver |-> ResolverTypeUnstructured]
        ELSE IF r = ResolverTypeCEL
             THEN [err |-> FALSE, resolver |-> ResolverTypeCEL]
             ELSE [err |-> TRUE, resolver |-> ResolverTypeNone]

ensureResolver(resolver) ==
    IF resolver = ResolverTypeNone THEN ResolverTypeUnstructured ELSE resolver

validateLabelLengths(keys, values) == Len(keys) = Len(values)

\* strcase.ToSnake over \W -> "_", on the keys the configurations use that it
\* changes; a snake case word stays as it is
SnakeCase == ("static-label" :> "static_label") @@ ("podName" :> "pod_name")
sanitizeKey(s) == IF s \in DOMAIN SnakeCase THEN SnakeCase[s] ELSE s

\* the keys that match .+#\d+, each with its k[:strings.LastIndex(k, "#")]
ListKeys ==
    [k \in {p \o "#" \o ToString(i) : p \in ExpansionKeys, i \in 0..9} |->
        CHOOSE p \in ExpansionKeys : \E i \in 0..9 : k = p \o "#" \o ToString(i)]
IsListKey(k) == k \in DOMAIN ListKeys
ListKey(k) == ListKeys[k]

\* the elements of a finite set, one after the other
RECURSIVE SeqOf(_)
SeqOf(S) ==
    IF S = {} THEN <<>>
    ELSE LET x == CHOOSE y \in S : TRUE IN <<x>> \o SeqOf(S \ {x})

\* the values a resolved label set holds under the list keys of one parent,
\* in the order the map gave them: any order, they are sorted before use
Bucket(labelset, parent) ==
    SeqOf({<<k, labelset[k]>> : k \in {x \in DOMAIN labelset : IsListKey(x) /\ ListKey(x) = parent}})

\* the values of the pairs of a bucket
ValuesOf(pairs) == [i \in DOMAIN pairs |-> pairs[i][2]]

\* the queries that resolved under themselves, by index
ScalarIndexes(metric, sets) ==
    SelectSeq([i \in DOMAIN sets |-> i], LAMBDA i : metric.LabelValues[i] \in DOMAIN sets[i])

\* the label sets of the queries that did not
Composite(metric, sets) ==
    SelectSeq([i \in DOMAIN sets |-> IF metric.LabelValues[i] \in DOMAIN sets[i]
                                      THEN << >> ELSE sets[i]],
              LAMBDA set : DOMAIN set # {})

\* resolvedExpandedLabelSet: per parent key the values of the list keys, in
\* the order of the queries
ExpandedLabelSet(composite) ==
    [p \in {q \in ExpansionKeys :
                \E i \in DOMAIN composite :
                    \E k \in DOMAIN composite[i] : IsListKey(k) /\ ListKey(k) = q} |->
        Flatten([i \in DOMAIN composite |-> ValuesOf(Bucket(composite[i], p))])]

\* the labels of the queries at the indexes idx
ScalarLabels(metric, sets, idx) ==
    [keys   |-> [n \in DOMAIN idx |-> sanitizeKey(metric.LabelKeys[idx[n]])],
     values |-> [n \in DOMAIN idx |-> sets[idx[n]][metric.LabelValues[idx[n]]]]]

\* resolveLabels: empty results when the lengths differ; else one label per
\* query that resolves under itself, and for a query that resolves to a list
\* its values appended to the bucket of the list's parent key
resolveLabels(metric, resolverInstance, obj) ==
    IF ~validateLabelLengths(metric.LabelKeys, metric.LabelValues)
    THEN [keys |-> <<>>, values |-> <<>>, expanded |-> << >>]
    ELSE LET sets == [i \in DOMAIN metric.LabelValues |->
                         Resolve(resolverInstance, metric.LabelValues[i], obj)]
         IN  ScalarLabels(metric, sets, ScalarIndexes(metric, sets))
                 @@ [expanded |-> ExpandedLabelSet(Composite(metric, sets))]

appendGVKLabels(keys, values, g, v, k) ==
    [keys |-> keys \o <<"group", "version", "kind">>, values |-> values \o <<g, v, k>>]

\* the strings that parse as a float64
NumericStrings == ReplicaValues \cup {"42"}
ParseFloat(s) == [ok |-> s \in NumericStrings, value |-> s]

\* writeValue: "%f"
writeValue(value) == value \o ".000000"

\* writeMetricTo: one sample, or an error when the lengths differ or the
\* value is no number.
writeMetricTo(name, g, v, k, resolvedValue, resolvedLabelKeys, resolvedLabelValues) ==
    IF ~validateLabelLengths(resolvedLabelKeys, resolvedLabelValues)
       \/ ~ParseFloat(resolvedValue).ok
    THEN [err |-> TRUE, text |-> <<>>]
    ELSE LET l == appendGVKLabels(resolvedLabelKeys, resolvedLabelValues, g, v, k)
         IN  [err  |-> FALSE,
              text |-> << [kind   |-> "sample",
                           name   |-> kubeCustomResourcePrefix \o name,
                           keys   |-> l.keys,
                           values |-> l.values,
                           value  |-> writeValue(ParseFloat(resolvedValue).value)] >>]

\* the byte order slices.Sort puts the list elements in
SortRank == ("a" :> 1) @@ ("b" :> 2) @@ ("v1" :> 3) @@ ("v2" :> 4)

\* a bucket left in the order the map gave it
Unsorted(bucket) == bucket

\* slices.Sort
Sorted(bucket) == SortSeq(bucket, LAMBDA x, y : SortRank[x] < SortRank[y])

\* writeSingleSample
writeSingleSample(name, keys, values, value) ==
    writeMetricTo(name, ObjGroup, ObjVersion, ObjKind, value, keys, values)

\* the longest bucket
RECURSIVE seriesToGenerate(_)
seriesToGenerate(expanded) ==
    IF DOMAIN expanded = {} THEN 0
    ELSE LET k == CHOOSE x \in DOMAIN expanded : TRUE
             rest == seriesToGenerate([y \in DOMAIN expanded \ {k} |-> expanded[y]])
         IN  IF Len(expanded[k]) > rest THEN Len(expanded[k]) ELSE rest

\* the label values of sample j: the next element of each sorted bucket, or
\* the empty string
ephemeralLabelValues(labelValues, sorted, order, j) ==
    labelValues \o [i \in DOMAIN order |->
                       IF j <= Len(sorted[order[i]]) THEN sorted[order[i]][j] ELSE ""]

\* the samples as they were written, the first failure ending the metric
WrittenSamples(written) ==
    IF \E j \in DOMAIN written : written[j].err
    THEN [err |-> TRUE, text |-> <<>>]
    ELSE [err |-> FALSE, text |-> Flatten([j \in DOMAIN written |-> written[j].text])]

\* writeExpandedSamples: the expansion keys follow the label keys in the
\* order the map gave them, every bucket is sorted, and sample j takes
\* element j of each bucket or the empty string; the first sample that
\* fails ends the metric with an error
writeExpandedSamples(name, labelKeys, labelValues, expanded, value, order) ==
    WrittenSamples(
        [j \in 1..seriesToGenerate(expanded) |->
            writeMetricTo(name, ObjGroup, ObjVersion, ObjKind, value, labelKeys \o order,
                          ephemeralLabelValues(labelValues,
                                               [k \in DOMAIN expanded |-> Sorted(expanded[k])],
                                               order, j))])

\* the order of the current call over the keys of an expanded label set
ExpansionOrder(expanded) == SelectSeq(mapOrder, LAMBDA k : k \in DOMAIN expanded)

writeMetricSamples(name, keys, values, expanded, value) ==
    IF DOMAIN expanded = {}
    THEN writeSingleSample(name, keys, values, value)
    ELSE writeExpandedSamples(name, keys, values, expanded, value,
                              ExpansionOrder(expanded))

inheritMetricAttributes(f, metric) ==
    [metric EXCEPT !.LabelKeys = @ \o f.LabelKeys,
                   !.LabelValues = @ \o f.LabelValues]

\* the text one metric contributes, the metric being already inherited
MetricText(f, metric, obj) ==
    LET r == FamilyResolver(f, metric.Resolver)
    IN  IF r.err THEN <<>>
        ELSE LET l == resolveLabels(metric, r.resolver, obj)
                 val == Resolve(r.resolver, metric.Value, obj)
             IN  IF metric.Value \notin DOMAIN val THEN <<>>
                 ELSE LET w == writeMetricSamples(f.Name, l.keys, l.values,
                                                  l.expanded, val[metric.Value])
                      IN  IF w.err THEN <<>> ELSE w.text

\* buildMetricString: the family after its metrics inherited its labels, and
\* the fragment.
buildMetricString(f, obj) ==
    LET ms == [i \in DOMAIN f.Metrics |-> inheritMetricAttributes(f, f.Metrics[i])]
    IN  [family |-> [f EXCEPT !.Metrics = ms],
         text   |-> Flatten([i \in DOMAIN ms |-> MetricText(f, ms[i], obj)])]

buildHeaders(f) ==
    [help |-> "# HELP " \o kubeCustomResourcePrefix \o f.Name \o " " \o f.Help,
     type |-> "# TYPE " \o kubeCustomResourcePrefix \o f.Name \o " " \o metricTypeGauge,
     name |-> kubeCustomResourcePrefix \o f.Name]

buildMetricHeaders(metricFamilies) ==
    [i \in DOMAIN metricFamilies |-> buildHeaders(metricFamilies[i])]

inheritFamilyConfiguration(f, s) ==
    [f EXCEPT !.Resolver = IF @ = ResolverTypeNone THEN s.Resolver ELSE @,
              !.LabelKeys = @ \o s.LabelKeys,
              !.LabelValues = @ \o s.LabelValues]

\* generateMetricsForObject appending only the fragments that hold text
generateMetricsForObjectNonEmpty(s, obj) ==
    LET built == [i \in DOMAIN s.Families |->
                     buildMetricString(inheritFamilyConfiguration(s.Families[i], s), obj)]
    IN  [families |-> [i \in DOMAIN built |-> built[i].family],
         metrics  |-> SelectSeq([i \in DOMAIN built |-> built[i].text],
                                LAMBDA t : t # <<>>)]

\* generateMetricsForObject: one fragment per family, in order; the families
\* are left as the rendering mutated them.
generateMetricsForObject(s, obj) ==
    LET built == [i \in DOMAIN s.Families |->
                     buildMetricString(inheritFamilyConfiguration(s.Families[i], s), obj)]
    IN  [families |-> [i \in DOMAIN built |-> built[i].family],
         metrics  |-> [i \in DOMAIN built |-> built[i].text]]

\* ---------------------------------------------------------------- configuration

\* metric specs of the configurations explored
MetricReplicas ==
    [LabelKeys |-> <<"name">>, LabelValues |-> <<"metadata.name">>,
     Value |-> "spec.replicas", Resolver |-> ResolverTypeNone]
\* two keys, three values
MetricMismatch ==
    [LabelKeys |-> <<"name", "tier">>,
     LabelValues |-> <<"metadata.name", "gold", "extra">>,
     Value |-> "spec.replicas", Resolver |-> ResolverTypeNone]
\* a literal label and a literal value
MetricLiteral ==
    [LabelKeys |-> <<"static-label">>, LabelValues |-> <<"43-1">>,
     Value |-> "42", Resolver |-> ResolverTypeNone]
\* the value expression resolves to no number
MetricNoValue ==
    [LabelKeys |-> <<"podName">>, LabelValues |-> <<"metadata.name">>,
     Value |-> "status.phase", Resolver |-> ResolverTypeCEL]

NoLabels == [keys |-> <<>>, values |-> <<>>]
FamilyLabels == {NoLabels, [keys |-> <<"owner">>, values |-> <<"team-a">>]}
StoreLabels == {NoLabels, [keys |-> <<"cluster">>, values |-> <<"prod">>]}

MetricLists ==
    {<<MetricReplicas>>, <<MetricMismatch>>, <<MetricLiteral, MetricReplicas>>,
     <<MetricNoValue, MetricReplicas>>, <<MetricNoValue>>}

FamilySpecs ==
    {[Name |-> n, Help |-> "help", Metrics |-> ms, Resolver |-> ResolverTypeNone,
      LabelKeys |-> l.keys, LabelValues |-> l.values] :
        n \in {"replicas", "info"}, ms \in MetricLists, l \in FamilyLabels}

FamilyLists ==
    {<<f>> : f \in FamilySpecs}
    \cup {<<f, g>> : f \in {h \in FamilySpecs : /\ h.Metrics = <<MetricReplicas>>
                                                 /\ h.Name = "replicas"
                                                 /\ h.LabelKeys = <<>>},
                     g \in {h \in FamilySpecs : h.LabelKeys = <<>>}}

StoreSpecs ==
    {[Families |-> fs, Resolver |-> ResolverTypeNone,
      LabelKeys |-> l.keys, LabelValues |-> l.values] :
        fs \in FamilyLists, l \in StoreLabels}

\* the store a second GVK of the same configuration gets
SecondStore ==
    [Families |-> << [Name |-> "replicas", Help |-> "help",
                      Metrics |-> <<MetricReplicas>>, Resolver |-> ResolverTypeNone,
                      LabelKeys |-> <<>>, LabelValues |-> <<>>] >>,
     Resolver |-> ResolverTypeNone, LabelKeys |-> <<>>, LabelValues |-> <<>>]

\* configuration.Stores after a successful parse
Configurations ==
    {<<s>> : s \in StoreSpecs}
    \cup {<<s, SecondStore>> : s \in {t \in StoreSpecs : Len(t.Families) = 1
                                                      /\ t.LabelKeys = <<>>}}

\* ---------------------------------------------------------------- state

VARIABLES
    config,      \* SpecStore: the parsed configuration of the RMM
    stores,      \* the registry: RMM UID -> sequence of store ids
    storeObjs,   \* store id -> the StoreType behind it
    applied,     \* SpecStore: times the handler ran on the RMM
    renders,     \* SpecStore: Add/Update calls so far
    onceScrape   \* SpecStore: the scrape seen after the first run, per set of objects

VARIABLES
    api,         \* the API server: RMM name -> the object, or NoObj
    cache,       \* the informer's indexer, read through the lister
    workqueue,   \* the rate-limited workqueue of the controller
    worker,      \* worker -> where it stands in processNextWorkItem
    reflectors,  \* store id -> the context its reflector runs under
    cancelled,   \* the contexts that are cancelled
    monitored,   \* label sets of the resources_monitored_info gauge
    created,     \* RMMs created so far (the next UID)
    userOps,     \* user writes so far
    relists,     \* informer relists so far
    servers      \* the telemetry and the main HTTP server

VARIABLES
    target,      \* SpecCalls: the store that is called
    ncalls,      \* SpecCalls: calls so far
    last,        \* SpecCalls: the last call, its arguments and what it returned
    gone         \* SpecCalls: UIDs added and then deleted, not added since

VARIABLES
    unit,        \* SpecUnits: the unit that is exercised
    options,     \* SpecUnits: the command line, the environment and the Options read from them
    resolving,   \* SpecUnits: one call of CELResolver.Resolve, its goroutine and its timer
    rmmStatus,   \* SpecUnits: the conditions of one ResourceMetricsMonitorStatus
    inherited    \* SpecUnits: one object rendered by a store with a resolver at each level

VARIABLES
    mutex,       \* SpecLocks: store id -> the sync.RWMutex of the store
    scraper,     \* SpecLocks: scrape task -> where it stands in the /metrics handler
    feeder,      \* SpecLocks: store id -> where its reflector stands in Add or Delete
    registrar,   \* SpecLocks: the worker that handles an event, at the registry
    lockOps      \* SpecLocks: the writer in use, and scrapes, calls and handlings so far

\* what only SpecUnits moves, what only SpecLocks moves, what only SpecCalls
\* and these move, what Spec leaves alone, and what SpecStore leaves alone
unitVars == <<unit, options, resolving, rmmStatus, inherited>>
lockVars == <<mutex, scraper, feeder, registrar, lockOps>>
callVars == <<target, ncalls, last, gone, mapOrder, unitVars, lockVars>>
storeOnlyVars == <<config, applied, renders, onceScrape, callVars>>
ctlVars == <<api, cache, workqueue, worker, reflectors, cancelled, monitored,
             created, userOps, relists, servers, callVars>>
vars == <<config, stores, storeObjs, applied, renders, onceScrape, api, cache,
          workqueue, worker, reflectors, cancelled, monitored, created, userOps,
          relists, servers, mapOrder, target, ncalls, last, gone, unit, options, resolving,
          rmmStatus, inherited, mutex, scraper, feeder, registrar, lockOps>>

\* ---------------------------------------------------------------- options

\* the flags Read defines that the model follows: an int and a bool
mainPortFlagName == "main-port"
versionFlagName == "version"
FlagNames == {mainPortFlagName, versionFlagName}

\* the default each flag is defined with, as flag.DefValue holds it
DefValue == (mainPortFlagName :> "9999") @@ (versionFlagName :> "false")

\* flag.Value.Set then flag.Value.String: strconv.ParseInt for an int flag,
\* strconv.ParseBool for a bool flag; a text that does not parse is an error
FlagSet(name, text) ==
    IF name = mainPortFlagName
    THEN IF text \in {"9999", "4242", "1234"}
         THEN [err |-> FALSE, value |-> text]
         ELSE [err |-> TRUE, value |-> ""]
    ELSE IF text \in {"true", "1"} THEN [err |-> FALSE, value |-> "true"]
         ELSE IF text \in {"false", "0"} THEN [err |-> FALSE, value |-> "false"]
         ELSE [err |-> TRUE, value |-> ""]

\* what a command line can give a flag, and what the environment can hold
\* under the name of its variable
ArgTexts == (mainPortFlagName :> {"9999", "4242"}) @@ (versionFlagName :> {"true", "false"})
EnvTexts == (mainPortFlagName :> {"9999", "1234", "abc"}) @@ (versionFlagName :> {"1", "false"})

\* `RSM_` + strings.ReplaceAll(strings.ToUpper(name), "-", "_")
overriderForOptionName(name) ==
    IF name = mainPortFlagName THEN "RSM_MAIN_PORT" ELSE "RSM_VERSION"

\* the command lines: each flag given with a value or not given
CommandLines ==
    UNION {{args \in [given -> UNION Range(ArgTexts)] :
                \A name \in given : args[name] \in ArgTexts[name]} :
           given \in SUBSET FlagNames}

\* the environments: the variable of each flag set to a text or not set
Environments ==
    UNION {{[v \in {overriderForOptionName(name) : name \in set} |->
                texts[CHOOSE name \in set : overriderForOptionName(name) = v]] :
            texts \in {t \in [set -> UNION Range(EnvTexts)] :
                          \A name \in set : t[name] \in EnvTexts[name]}} :
           set \in SUBSET FlagNames}

\* flag.Parse: a flag that is given takes the value of its argument, the
\* others keep their default
flagParse(args) ==
    [name \in FlagNames |->
        IF name \in DOMAIN args THEN FlagSet(name, args[name]).value ELSE DefValue[name]]

\* the function VisitAll runs on one flag: a flag whose value differs from
\* its default is left alone, any other takes the value of its environment
\* variable when that is set, and a value that cannot be set panics
visitFlag(name, value, env) ==
    IF value # DefValue[name]
    THEN [err |-> FALSE, value |-> value]
    ELSE IF overriderForOptionName(name) \in DOMAIN env
         THEN FlagSet(name, env[overriderForOptionName(name)])
         ELSE [err |-> FALSE, value |-> value]

\* Options.Read
OptionsRead(args, env) ==
    LET visited == [name \in FlagNames |-> visitFlag(name, flagParse(args)[name], env)]
    IN  [args |-> args, env |-> env, read |-> TRUE,
         panicked |-> \E name \in FlagNames : visited[name].err,
         value |-> [name \in FlagNames |-> visited[name].value]]

\* before Read
NoOptions == [args |-> << >>, env |-> << >>, read |-> FALSE, panicked |-> FALSE,
              value |-> DefValue]

\* ---------------------------------------------------------------- CEL calls

\* the limits the resolver is built with, in units of cost and in ticks
costLimit == 2
timeout == 2

\* ticks a goroutine that can run may wait for the processor
Latency == 1

\* the object the queries are evaluated on
CELObject == [uid |-> "x1", replicas |-> "1", versions |-> <<"v1", "v2">>, tags |-> <<>>]

\* the queries: fields of the object, a list of the object, a list literal,
\* a timestamp, a missing key, a text that does not parse, and a
\* comprehension that costs more than the limit
QueryName == "o.metadata.name"
QueryReplicas == "o.spec.replicas"
QueryVersions == "o.spec.versions"
QueryLiteralList == "[1, 2]"
QueryTimestamp == "timestamp('2025-01-01T00:00:00Z')"
QueryMissing == "o.spec.missing"
QueryUnparsable == "o..name"
QueryCostly == "o.spec.versions.all(v, o.spec.versions.all(w, v != w))"
Queries == {QueryName, QueryReplicas, QueryVersions, QueryLiteralList, QueryTimestamp,
            QueryMissing, QueryUnparsable, QueryCostly}

\* env.Parse
parseFails(query) == query = QueryUnparsable

\* the cost the evaluation of the query runs up
ActualCost(query) == IF query = QueryCostly THEN costLimit + 1 ELSE 1

\* program.Eval without limits: the value of the query on the object, with
\* its CEL type; a list of the object is held as []interface{}, a list the
\* expression builds is not
evalValue(query, obj) ==
    CASE query = QueryName        -> [err |-> FALSE, type |-> "string", native |-> TRUE, value |-> obj.uid]
      [] query = QueryReplicas    -> [err |-> FALSE, type |-> "int", native |-> TRUE, value |-> obj.replicas]
      [] query = QueryVersions    -> [err |-> FALSE, type |-> "list", native |-> TRUE, value |-> obj.versions]
      [] query = QueryLiteralList -> [err |-> FALSE, type |-> "list", native |-> FALSE, value |-> <<"1", "2">>]
      [] query = QueryTimestamp   -> [err |-> FALSE, type |-> "timestamp", native |-> TRUE, value |-> "2025-01-01T00:00:00Z"]
      [] query = QueryCostly      -> [err |-> FALSE, type |-> "bool", native |-> TRUE, value |-> "false"]
      [] OTHER                    -> [err |-> TRUE, type |-> "", native |-> FALSE, value |-> ""]

\* evaluateProgram under cel.CostLimit: an evaluation that runs over the limit
\* ends with an error
evaluateProgram(query, obj) ==
    IF ActualCost(query) > costLimit
    THEN [err |-> TRUE, type |-> "", native |-> FALSE, value |-> ""]
    ELSE evalValue(query, obj)

\* query[strings.LastIndex(query, ".")+1:]
resolvedFieldParent(query) ==
    IF query = QueryVersions THEN "versions" ELSE query

defaultMapping(query) == query :> query

\* CELResolver.processResult: scalars under the query, lists through
\* resolveList, which returns nil for a list that is no []interface{}, any
\* other type the default mapping
processResult(query, out) ==
    IF out.type \in {"bool", "double", "int", "string", "uint"}
    THEN query :> out.value
    ELSE IF out.type = "list"
         THEN IF out.native THEN resolveList(out.value, resolvedFieldParent(query))
              ELSE << >>
         ELSE defaultMapping(query)

\* CELResolver.resolveWithTimeout: what the goroutine sends on the channel
resolveWithTimeout(query, obj) ==
    IF parseFails(query) THEN [output |-> << >>, err |-> TRUE]
    ELSE IF evaluateProgram(query, obj).err THEN [output |-> << >>, err |-> TRUE]
    ELSE [output |-> processResult(query, evaluateProgram(query, obj)), err |-> FALSE]

\* make(chan result, 1)
resultChanCap == 1

\* a send on a channel without a buffer goes through only to a receiver that
\* waits
sendReadyUnbuffered(pc, buffered) == pc = "select"

\* resultChan <- result can go through: the buffer has room, or the caller
\* waits in the select
sendReady(pc, buffered) == buffered < resultChanCap \/ pc = "select"

\* the counters of cel_evaluations before any call
NoEvaluations == [success |-> 0, error |-> 0, timeout |-> 0]

\* a receive branch that goes on to count a success after an error
countResultFallingThrough(counters, err) ==
    IF err THEN [counters EXCEPT !.error = @ + 1, !.success = @ + 1]
    ELSE [counters EXCEPT !.success = @ + 1]

\* case res := <-resultChan: the evaluation is counted as an error or as a
\* success
countResult(counters, err) ==
    IF err THEN [counters EXCEPT !.error = @ + 1]
    ELSE [counters EXCEPT !.success = @ + 1]

\* time.After(cr.timeout) has fired
timerNever(clock) == FALSE
timerFired(clock) == clock >= timeout

\* no call of Resolve under way
NotResolving ==
    [pc |-> "idle", query |-> "", clock |-> 0, late |-> 0, evaluated |-> FALSE,
     sent |-> FALSE, result |-> [output |-> << >>, err |-> FALSE], output |-> << >>,
     counted |-> "", counters |-> NoEvaluations, via |-> ""]

\* ---------------------------------------------------------------- status conditions

ConditionType == <<"Processed", "Failed">>
ConditionMessageTrue == <<"Resource configuration has been processed successfully",
                          "Resource failed to process">>
ConditionMessageFalse == <<"Resource configuration is yet to be processed", "N/A">>
ConditionReasonTrue == <<"EventHandlerSucceeded", "EventHandlerFailed">>
ConditionReasonFalse == <<"EventHandlerRunning", "N/A">>

ConditionTrue == "True"
ConditionFalse == "False"
ConditionUnknown == "Unknown"

\* the conditions Set is called with: the handler's types and one it does
\* not know
ConditionTypes == Range(ConditionType) \cup {"Ready"}
ConditionStatuses == {ConditionTrue, ConditionFalse, ConditionUnknown}

\* slices.Index, counted from zero
Index(seq, x) ==
    IF \E i \in DOMAIN seq : seq[i] = x
    THEN (CHOOSE i \in DOMAIN seq : seq[i] = x /\ \A j \in 1..(i - 1) : seq[j] # x) - 1
    ELSE 0 - 1

\* Set with the condition always appended
SetAppending(conditions, type, st) ==
    LET n == Index(ConditionType, type) + 1
    IN  IF n = 0 THEN [panicked |-> TRUE, conditions |-> conditions]
        ELSE [panicked |-> FALSE,
              conditions |-> Append(conditions,
                  [Type |-> type, Status |-> st,
                   Reason |-> IF st = ConditionTrue THEN ConditionReasonTrue[n]
                              ELSE ConditionReasonFalse[n],
                   Message |-> IF st = ConditionTrue THEN ConditionMessageTrue[n]
                               ELSE ConditionMessageFalse[n]])]

\* ResourceMetricsMonitorStatus.Set: reason and message by type and status;
\* the first condition of the type is replaced, or the condition appended;
\* a type that is not in ConditionType indexes the slices at -1 and panics
Set(conditions, type, st) ==
    LET n == Index(ConditionType, type) + 1
        same == {i \in DOMAIN conditions : conditions[i].Type = type}
    IN  IF n = 0 THEN [panicked |-> TRUE, conditions |-> conditions]
        ELSE LET condition ==
                     [Type |-> type, Status |-> st,
                      Reason |-> IF st = ConditionTrue THEN ConditionReasonTrue[n]
                                 ELSE ConditionReasonFalse[n],
                      Message |-> IF st = ConditionTrue THEN ConditionMessageTrue[n]
                                  ELSE ConditionMessageFalse[n]]
             IN  [panicked |-> FALSE,
                  conditions |->
                      IF same = {} THEN Append(conditions, condition)
                      ELSE [conditions EXCEPT
                               ![CHOOSE i \in same : \A j \in same : i <= j] = condition]]

\* a status no condition was set on
NoStatus == [conditions |-> <<>>, panicked |-> FALSE, sets |-> 0]

\* ---------------------------------------------------------------- resolver inheritance

\* the resolver names a configuration can carry at each level: none, the two
\* resolvers, and a name that is no resolver
ResolverNames == {ResolverTypeNone, ResolverTypeUnstructured, ResolverTypeCEL, "jq"}

\* a metric whose first label resolves under CEL only and whose second
\* resolves under the unstructured resolver only
MetricEitherResolver(resolver) ==
    [LabelKeys |-> <<"cel", "plain">>,
     LabelValues |-> <<"o.metadata.name", "metadata.name">>,
     Value |-> "42", Resolver |-> resolver]

\* a store of one family of that metric, with a resolver at each level
ResolverStoreSpec(storeResolver, familyResolver, metricResolver) ==
    [Families |-> << [Name |-> "info", Help |-> "help",
                      Metrics |-> <<MetricEitherResolver(metricResolver)>>,
                      Resolver |-> familyResolver,
                      LabelKeys |-> <<>>, LabelValues |-> <<>>] >>,
     Resolver |-> storeResolver, LabelKeys |-> <<>>, LabelValues |-> <<>>]

\* no store rendered
NotRendered == [done |-> FALSE, store |-> "", family |-> "", metric |-> "", text |-> <<>>]

\* ---------------------------------------------------------------- locks

\* the tasks that serve /metrics requests
Scrapers == {"s1", "s2"}

\* a sync.RWMutex: the readers that hold it, the readers that wait behind a
\* writer, and the writer (a store has one reflector, so one writer)
FreeMutex == [readers |-> {}, blocked |-> {}, writer |-> "none"]

\* an RLock that goes ahead of a writer that holds the mutex or waits for it
RLockBarging(m, t) == [m EXCEPT !.readers = @ \cup {t}]

\* RWMutex.RLock: the reader holds the mutex unless a writer holds it or
\* waits for it; then the reader waits for the writer's Unlock
RLock(m, t) ==
    IF m.writer = "none" THEN [m EXCEPT !.readers = @ \cup {t}]
    ELSE [m EXCEPT !.blocked = @ \cup {t}]

\* RWMutex.RUnlock
RUnlock(m, t) == [m EXCEPT !.readers = @ \ {t}]

\* RWMutex.Lock: the writer announces itself, which stops new readers, and
\* holds the mutex once the readers it found have left
Lock(m) == [m EXCEPT !.writer = IF m.readers = {} THEN "held" ELSE "waiting"]

\* an Unlock that leaves the readers waiting
UnlockForgetting(m) == [m EXCEPT !.writer = "none"]

\* RWMutex.Unlock: the readers that waited hold the mutex
Unlock(m) == [readers |-> m.readers \cup m.blocked, blocked |-> {}, writer |-> "none"]

\* a scrape task, a reflector and the worker at rest
IdleScraper == [pc |-> "idle", uids |-> <<>>, ids |-> <<>>, k |-> 0, i |-> 0,
                first |-> {}, torn |-> FALSE]
IdleFeeder == [pc |-> "idle", op |-> "", item |-> << >>]
IdleRegistrar == [pc |-> "idle", uid |-> "", race |-> "none"]

\* nothing of SpecLocks runs
LocksInit ==
    /\ mutex = << >>
    /\ scraper = [t \in Scrapers |-> IdleScraper]
    /\ feeder = << >>
    /\ registrar = IdleRegistrar
    /\ lockOps = [writer |-> "", scrapes |-> 0, calls |-> 0, handlings |-> 0]

\* the units at rest
UnitsInit ==
    /\ unit = ""
    /\ options = NoOptions
    /\ resolving = NotResolving
    /\ rmmStatus = NoStatus
    /\ inherited = NotRendered

\* the RMM of SpecStore
TheUID == "u1"

StoreIDs == DOMAIN storeObjs

\* the registry entry of a UID (sync.Map Load; no entry reads as no stores)
StoresOf(uid) == IF uid \in DOMAIN stores THEN stores[uid] ELSE <<>>

\* a Delete that leaves the entry
DeleteEntryKept(reg, uid) == reg

\* a Delete that empties the registry
DeleteEntryAll(reg, uid) == << >>

\* stores.Delete(uid)
DeleteEntry(reg, uid) == [u \in DOMAIN reg \ {uid} |-> reg[u]]

\* uidToStoresMap[uid] = append(uidToStoresMap[uid], s)
AppendStore(reg, uid, id) ==
    [u \in DOMAIN reg \cup {uid} |->
        IF u = uid
        THEN (IF uid \in DOMAIN reg THEN reg[uid] ELSE <<>>) \o <<id>>
        ELSE reg[u]]

\* newStore as buildStore calls it: headers from the families, the resolver
\* defaulted, an empty metrics map.  objs is history: the object each present
\* UID was last rendered from.
newStore(cfg) ==
    [headers     |-> buildMetricHeaders(cfg.Families),
     Families    |-> cfg.Families,
     Resolver    |-> ensureResolver(cfg.Resolver),
     LabelKeys   |-> cfg.LabelKeys,
     LabelValues |-> cfg.LabelValues,
     metrics     |-> << >>,
     objs        |-> << >>]

\* an item handed to the store that is no API object: the converter and
\* meta.Accessor both refuse it
NotAnObject == [value |-> "text"]

\* convertToUnstructured
convertToUnstructured(item) ==
    [obj |-> item, err |-> "uid" \notin DOMAIN item]

\* StoreType.Add: render every family and write the fragments under the UID;
\* an item that does not convert leaves the store alone
StoreAdd(s, item) ==
    LET c == convertToUnstructured(item)
        g == generateMetricsForObject(s, c.obj)
    IN  IF c.err THEN [store |-> s, err |-> TRUE]
        ELSE [store |-> [s EXCEPT !.Families = g.families,
                                  !.metrics = (c.obj.uid :> g.metrics) @@ @,
                                  !.objs = (c.obj.uid :> c.obj) @@ @],
              err |-> FALSE]

\* StoreType.Update
StoreUpdate(s, item) == StoreAdd(s, item)

\* a Delete that leaves the metrics of the object
StoreDeleteKept(s, item) == [store |-> s, err |-> "uid" \notin DOMAIN item]

\* StoreType.Delete
StoreDelete(s, item) ==
    IF "uid" \notin DOMAIN item THEN [store |-> s, err |-> TRUE]
    ELSE [store |-> [s EXCEPT !.metrics = [u \in DOMAIN @ \ {item.uid} |-> @[u]],
                              !.objs = [u \in DOMAIN @ \ {item.uid} |-> @[u]]],
          err |-> FALSE]

\* a Replace that gives up at the first item that fails
RECURSIVE StoreReplaceStopping(_, _)
StoreReplaceStopping(s, items) ==
    IF items = <<>> THEN [store |-> s, err |-> FALSE]
    ELSE IF StoreAdd(s, Head(items)).err THEN [store |-> s, err |-> TRUE]
    ELSE StoreReplaceStopping(StoreAdd(s, Head(items)).store, Tail(items))

\* StoreType.Replace: Add each item in order, an error of Add is logged
RECURSIVE StoreReplace(_, _)
StoreReplace(s, items) ==
    IF items = <<>> THEN [store |-> s, err |-> FALSE]
    ELSE StoreReplace(StoreAdd(s, Head(items)).store, Tail(items))

\* ---------------------------------------------------------------- writer

\* writeHeader: the header, and a newline unless the header is empty or a
\* newline already, as one line of the response
writeHeader(header) ==
    LET text == header.help \o "\n" \o header.type
    IN  << [kind |-> "header", name |-> header.name, keys |-> <<>>, values |-> <<>>,
            value |-> IF text # "" /\ text # "\n" THEN text \o "\n" ELSE text] >>

\* a writer that goes through every fragment of every UID
writeFromStoreAll(store, order) ==
    LET n == IF order = <<>> THEN Len(store.headers)
             ELSE Len(store.metrics[order[1]])
    IN  Flatten([i \in 1..n |->
            (IF i <= Len(store.headers) THEN writeHeader(store.headers[i]) ELSE <<>>)
            \o Flatten([j \in DOMAIN order |->
                   IF i > Len(store.metrics[order[j]]) THEN <<>>
                   ELSE store.metrics[order[j]][i]])])

\* writeFromStore: per family index the header, then that family's fragment
\* of every UID holding one; order is the iteration order of store.metrics.
writeFromStore(store, order) ==
    Flatten([i \in DOMAIN store.headers |->
        writeHeader(store.headers[i])
        \o Flatten([j \in DOMAIN order |->
               IF i > Len(store.metrics[order[j]]) THEN <<>>
               ELSE store.metrics[order[j]][i]])])

\* writeStores: the stores of one registry entry, in order
writeStores(ids, orders) ==
    Flatten([k \in DOMAIN ids |-> writeFromStore(storeObjs[ids[k]], orders[ids[k]])])

\* the /metrics generator of mainServer.build: every entry of the registry
ScrapeText(uidOrder, orders) ==
    Flatten([k \in DOMAIN uidOrder |-> writeStores(stores[uidOrder[k]], orders)])

LiveStores == UNION {Range(stores[u]) : u \in DOMAIN stores}

MetricsOrders ==
    {o \in [LiveStores -> UNION {Orderings(DOMAIN storeObjs[id].metrics) : id \in LiveStores}] :
        \A id \in LiveStores : o[id] \in Orderings(DOMAIN storeObjs[id].metrics)}

\* every response one scrape of the current registry can produce
ScrapeTexts ==
    {ScrapeText(uo, o) : uo \in Orderings(DOMAIN stores), o \in MetricsOrders}

\* ---------------------------------------------------------------- handler, on the registry

\* configurer.build: one store per store spec, appended to the entry of the
\* RMM; the new stores get the ids following the ones in use.
RECURSIVE build(_, _, _, _)
build(reg, objs, uid, cfgs) ==
    IF cfgs = <<>> THEN [stores |-> reg, storeObjs |-> objs]
    ELSE LET id == IF DOMAIN objs = {} THEN 1
                   ELSE (CHOOSE m \in DOMAIN objs : \A n \in DOMAIN objs : n <= m) + 1
         IN  build(AppendStore(reg, uid, id), (id :> newStore(Head(cfgs))) @@ objs,
                   uid, Tail(cfgs))

\* processAddOrUpdate with a configuration that parses: drop, then build
processAddOrUpdate(reg, objs, uid, cfgs) ==
    build(DeleteEntry(reg, uid), objs, uid, cfgs)

\* what the live stores were last fed, in registry order
LiveObjects == [k \in DOMAIN StoresOf(TheUID) |-> storeObjs[StoresOf(TheUID)[k]].objs]

NoScrape == [objs |-> <<>>, texts |-> {}, taken |-> FALSE]

\* ---------------------------------------------------------------- controller: objects

\* the workers flag's default
NumWorkers == 2
Workers == 1..NumWorkers

\* iterations a poll of one second for one minute can make
PollLimit == 60

Names == {"a"}
Namespace == "default"

addEvent == "addEvent"
updateEvent == "updateEvent"
deleteEvent == "deleteEvent"

\* the Spec.Configuration strings a user writes: empty, not YAML, one store,
\* two stores
ConfigTexts == {"", "bad", "c1", "c2"}

\* configure.parse: yaml.Unmarshal into the configuration
parse(text) ==
    CASE text = "c1" -> [err |-> FALSE, Stores |-> <<SecondStore>>]
      [] text = "c2" -> [err |-> FALSE, Stores |-> <<SecondStore, SecondStore>>]
      [] text = ""   -> [err |-> FALSE, Stores |-> <<>>]
      [] OTHER       -> [err |-> TRUE, Stores |-> <<>>]

NoObj == [uid |-> ""]
Exists(o) == o.uid # ""

\* resourceVersion is opaque and only compared for equality, so versions are
\* kept relative to the one the API server holds: the object there and in the
\* informer is at Current, a write sends Current + 1, and a copy a worker took
\* before a write of the object is at Stale from then on.
Current == 0
Stale == 0 - 1

\* a ResourceMetricsMonitor as the API server holds it; processed and failed
\* are the Status of the conditions of that type, "" when there is none
NewRMM(name, uid, cfg) ==
    [uid |-> uid, ns |-> Namespace, name |-> name, rv |-> Current, cfg |-> cfg,
     managed |-> FALSE, processed |-> "", failed |-> ""]

UIDOf(n) == "u" \o ToString(n)

\* cache.MetaNamespaceKeyFunc
MetaNamespaceKeyFunc(obj) == <<obj.ns, obj.name>>

\* a Set that withdraws Failed when Processed is set to True
StatusSetClearing(obj, type, status) ==
    IF type = "Processed"
    THEN [obj EXCEPT !.processed = status,
                     !.failed = IF status = "True" /\ @ = "True" THEN "False" ELSE @]
    ELSE [obj EXCEPT !.failed = status]

\* ResourceMetricsMonitorStatus.Set: the condition of the type is replaced, or
\* appended when there is none
StatusSet(obj, type, status) ==
    IF type = "Processed" THEN [obj EXCEPT !.processed = status]
    ELSE [obj EXCEPT !.failed = status]

\* clientset Get: the object of that name in that namespace
ClientGet(ns, name) ==
    IF ns = Namespace /\ name \in Names /\ Exists(api[name])
    THEN [err |-> FALSE, obj |-> api[name]]
    ELSE [err |-> TRUE, obj |-> NoObj]

\* clientset Update/UpdateStatus: refused when the object is gone, replaced
\* by another of the name, or moved past the resourceVersion sent
ClientUpdateOK(obj) ==
    /\ obj.ns = Namespace /\ obj.name \in Names
    /\ Exists(api[obj.name])
    /\ api[obj.name].uid = obj.uid
    /\ api[obj.name].rv = obj.rv

\* ---------------------------------------------------------------- controller: workqueue

EmptyQueue ==
    [queue |-> <<>>, dirty |-> {}, processing |-> {}, waiting |-> {},
     failures |-> <<>>, shuttingDown |-> FALSE]

\* Add that queues an item also while it is being processed
WQAddWhileProcessing(q, item) ==
    IF q.shuttingDown \/ item \in q.dirty THEN q
    ELSE [q EXCEPT !.dirty = @ \cup {item}, !.queue = Append(@, item)]

\* workqueue.Add
WQAdd(q, item) ==
    IF q.shuttingDown \/ item \in q.dirty THEN q
    ELSE IF item \in q.processing THEN [q EXCEPT !.dirty = @ \cup {item}]
    ELSE [q EXCEPT !.dirty = @ \cup {item}, !.queue = Append(@, item)]

\* a Get that returns shutdown as soon as the queue is shutting down
WQGetReadyUntilShutDown(q) == q.queue # <<>> /\ ~q.shuttingDown

\* workqueue.Get returns an item: it waits while the queue is empty and not
\* shutting down, and returns shutdown only on an empty queue
WQGetReady(q) == q.queue # <<>>

\* workqueue.Get on a queue holding an item
WQGet(q) ==
    [q EXCEPT !.queue = Tail(@),
              !.processing = @ \cup {Head(q.queue)},
              !.dirty = @ \ {Head(q.queue)}]

\* Done left out
WQDoneSkipped(q, item) == q

\* workqueue.Done
WQDone(q, item) ==
    IF item \in q.dirty
    THEN [q EXCEPT !.processing = @ \ {item}, !.queue = Append(@, item)]
    ELSE [q EXCEPT !.processing = @ \ {item}]

\* workqueue.Forget: the rate limiter drops the failure count of the item
WQForget(q, item) ==
    [q EXCEPT !.failures = [i \in DOMAIN @ \ {item} |-> @[i]]]

\* workqueue.AddRateLimited: one more failure, the item waits its back-off
WQAddRateLimited(q, item) ==
    IF q.shuttingDown THEN q
    ELSE [q EXCEPT !.failures = (item :> (IF item \in DOMAIN @ THEN @[item] + 1 ELSE 1)) @@ @,
                   !.waiting = @ \cup {item}]

\* Controller.enqueue
enqueue(q, obj, event) == WQAdd(q, <<MetaNamespaceKeyFunc(obj), event>>)

\* the UpdateFunc with the filter taking both conditions together
updateHandlerBoth(q, old, new) ==
    IF old.rv = new.rv /\ old.cfg = new.cfg THEN q
    ELSE enqueue(q, new, updateEvent)

\* Controller.updateHandler: the UpdateFunc of the informer
updateHandler(q, old, new) ==
    IF old.rv = new.rv \/ old.cfg = new.cfg THEN q
    ELSE enqueue(q, new, updateEvent)

\* ---------------------------------------------------------------- controller: workers

IdleWorker ==
    [pc |-> "idle", item |-> <<>>, o |-> NoObj, got |-> NoObj, resource |-> NoObj,
     err |-> FALSE, apiErr |-> FALSE, conflict |-> FALSE, polls |-> 0,
     reason |-> "", events |-> <<>>, parseErrors |-> 0, wrote |-> <<>>,
     dispatched |-> FALSE]

\* self.ListenAndServe and main.ListenAndServe were started
Listening == [self |-> "listening", main |-> "listening"]

\* http.Server.Shutdown under a context that is cancelled already: the
\* listeners are closed and the call returns the error of the context
Shutdown(srvs) == [self |-> "closed", main |-> "closed"]

ControllerInit ==
    /\ api = [n \in Names |-> NoObj]
    /\ cache = [n \in Names |-> NoObj]
    /\ workqueue = EmptyQueue
    /\ worker = [w \in Workers |-> IdleWorker]
    /\ reflectors = << >>
    /\ cancelled = {}
    /\ monitored = {}
    /\ created = 0
    /\ userOps = 0
    /\ relists = 0
    /\ servers = Listening

\* no call made
NoCall == [op |-> "", items |-> <<>>, err |-> FALSE, text |-> <<>>]

\* SpecCalls at rest
CallsInit ==
    /\ target = << >>
    /\ ncalls = 0
    /\ last = NoCall
    /\ gone = {}
    /\ mapOrder = <<"tags", "versions">>
    /\ UnitsInit
    /\ LocksInit

\* ---------------------------------------------------------------- SpecStore

InitStore ==
    /\ config \in Configurations
    /\ stores = << >>
    /\ storeObjs = << >>
    /\ applied = 0
    /\ renders = 0
    /\ onceScrape = NoScrape
    /\ ControllerInit
    /\ CallsInit

\* a worker handles an add or update event of the RMM; SpecStore follows the
\* stores the registry holds, a dropped store leaves storeObjs with its entry
ApplyRMM ==
    /\ applied < MaxApply
    /\ LET r == processAddOrUpdate(stores, storeObjs, TheUID, config)
           live == UNION {Range(r.stores[u]) : u \in DOMAIN r.stores}
       IN  /\ stores' = r.stores
           /\ storeObjs' = [id \in live |-> r.storeObjs[id]]
    /\ applied' = applied + 1
    /\ onceScrape' = IF applied = 1
                     THEN [objs |-> LiveObjects, texts |-> ScrapeTexts, taken |-> TRUE]
                     ELSE onceScrape
    /\ UNCHANGED <<config, renders>>
    /\ UNCHANGED ctlVars

\* the reflector of a store delivers an added object
ReflectorAdd(id, obj) ==
    /\ renders < MaxRenders
    /\ obj.uid \notin DOMAIN storeObjs[id].metrics
    /\ storeObjs' = [storeObjs EXCEPT ![id] = StoreAdd(@, obj).store]
    /\ renders' = renders + 1
    /\ UNCHANGED <<config, stores, applied, onceScrape>>
    /\ UNCHANGED ctlVars

\* the reflector of a store delivers a modified object
ReflectorUpdate(id, obj) ==
    /\ renders < MaxRenders
    /\ obj.uid \in DOMAIN storeObjs[id].metrics
    /\ storeObjs' = [storeObjs EXCEPT ![id] = StoreUpdate(@, obj).store]
    /\ renders' = renders + 1
    /\ UNCHANGED <<config, stores, applied, onceScrape>>
    /\ UNCHANGED ctlVars

\* the reflector of a store delivers a deleted object
ReflectorDelete(id, obj) ==
    /\ obj.uid \in DOMAIN storeObjs[id].metrics
    /\ storeObjs' = [storeObjs EXCEPT ![id] = StoreDelete(@, obj).store]
    /\ UNCHANGED <<config, stores, applied, renders, onceScrape>>
    /\ UNCHANGED ctlVars

\* the items of a list that the store can add
Convertible(items) == SelectSeq(items, LAMBDA i : ~convertToUnstructured(i).err)

\* the reflector of a store lists: Replace with the items listed
ReflectorReplace(id, items) ==
    /\ items # <<>>
    /\ renders + Len(Convertible(items)) <= MaxRenders
    /\ storeObjs' = [storeObjs EXCEPT ![id] = StoreReplace(@, items).store]
    /\ renders' = renders + Len(Convertible(items))
    /\ UNCHANGED <<config, stores, applied, onceScrape>>
    /\ UNCHANGED ctlVars

\* what a list can return: each UID at most once, in any order
Listings ==
    UNION {{[k \in DOMAIN o |-> [uid |-> o[k], replicas |-> r[o[k]]]] :
               o \in Orderings(U), r \in [U -> ReplicaValues]} : U \in SUBSET ObjUIDs}

NextStore ==
    \/ ApplyRMM
    \/ \E id \in StoreIDs, items \in Listings : ReflectorReplace(id, items)
    \/ \E id \in StoreIDs, obj \in Objects : ReflectorAdd(id, obj)
    \/ \E id \in StoreIDs, obj \in Objects : ReflectorUpdate(id, obj)
    \/ \E id \in StoreIDs, obj \in Objects : ReflectorDelete(id, obj)

SpecStore == InitStore /\ [][NextStore]_vars

\* ---------------------------------------------------------------- SpecCalls

\* target objects with lists: spec.versions and spec.tags
CallObjects ==
    {[uid |-> "x1", replicas |-> "1", versions |-> <<"v1", "v2">>, tags |-> <<>>],
     [uid |-> "x1", replicas |-> "2", versions |-> <<"v2", "v1">>, tags |-> <<"b", "a", "a">>],
     [uid |-> "x2", replicas |-> "1", versions |-> <<"v2">>, tags |-> <<"b", "a">>]}

\* what a store can be handed
Items == CallObjects \cup {NotAnObject}

\* what Replace can be handed: one or two items, no UID twice
ItemLists ==
    {l \in UNION {[1..n -> Items] : n \in 1..2} :
        \A i, j \in DOMAIN l : (i # j /\ "uid" \in DOMAIN l[i] /\ "uid" \in DOMAIN l[j])
                                  => l[i].uid # l[j].uid}

\* one list-valued label
MetricVersions ==
    [LabelKeys |-> <<"v">>, LabelValues |-> <<"o.spec.versions">>,
     Value |-> "o.spec.replicas", Resolver |-> ResolverTypeCEL]
\* a scalar label and two list-valued ones
MetricTagsAndVersions ==
    [LabelKeys |-> <<"name", "v", "t">>,
     LabelValues |-> <<"o.metadata.name", "o.spec.versions", "o.spec.tags">>,
     Value |-> "o.spec.replicas", Resolver |-> ResolverTypeCEL]
\* the value expression resolves to a list
MetricListValue ==
    [LabelKeys |-> <<"name">>, LabelValues |-> <<"o.metadata.name">>,
     Value |-> "o.spec.versions", Resolver |-> ResolverTypeCEL]
\* a resolver the family does not know
MetricUnknownResolver ==
    [LabelKeys |-> <<"name">>, LabelValues |-> <<"metadata.name">>,
     Value |-> "spec.replicas", Resolver |-> "jq"]
\* a list-valued label, and a value that resolves to no number
MetricVersionsNoValue ==
    [LabelKeys |-> <<"v">>, LabelValues |-> <<"o.spec.versions">>,
     Value |-> "o.status.phase", Resolver |-> ResolverTypeCEL]

CallFamily(name, ms) ==
    [Name |-> name, Help |-> "help", Metrics |-> ms, Resolver |-> ResolverTypeNone,
     LabelKeys |-> <<>>, LabelValues |-> <<>>]

CallStoreSpecs ==
    {[Families |-> fs, Resolver |-> ResolverTypeNone, LabelKeys |-> <<>>,
      LabelValues |-> <<>>] :
        fs \in {<<CallFamily("versions", <<MetricVersions>>)>>,
                <<CallFamily("lists", <<MetricUnknownResolver, MetricTagsAndVersions,
                                       MetricListValue>>),
                  CallFamily("versions", <<MetricVersionsNoValue, MetricVersions>>)>>,
                <<CallFamily("info", <<MetricVersionsNoValue, MetricMismatch,
                                      MetricReplicas>>)>>}}

\* the headers and the fragments of a store written down as a literal
LiteralHeaders(n) ==
    [i \in 1..n |-> buildHeaders([Name |-> "family" \o ToString(i), Help |-> "help"])]
LiteralFragment(uid, i) ==
    << [kind |-> "sample", name |-> "metric" \o ToString(i), keys |-> <<"uid">>,
        values |-> <<uid>>, value |-> "1.000000"] >>

\* newStore with the headers it is given, and the metrics map as the tests
\* of the writer fill it: lens[u] fragments for the UID u
LiteralStore(n, lens) ==
    [newStore([Families |-> <<>>, Resolver |-> ResolverTypeNone, LabelKeys |-> <<>>,
               LabelValues |-> <<>>])
       EXCEPT !.headers = LiteralHeaders(n),
              !.metrics = [u \in DOMAIN lens |->
                              [i \in 1..lens[u] |-> LiteralFragment(u, i)]]]

LiteralStores ==
    {LiteralStore(n, lens) :
        n \in 0..MaxFamilies,
        lens \in [ObjUIDs -> 0..(MaxFamilies + 1)]}

\* the stores SpecCalls starts from
DrawnStores == {newStore(cfg) : cfg \in CallStoreSpecs} \cup LiteralStores

\* what SpecCalls leaves alone
baseVars == <<config, stores, storeObjs, applied, renders, onceScrape, api, cache,
              workqueue, worker, reflectors, cancelled, monitored, created, userOps,
              relists, servers>>
restVars == <<baseVars, unitVars, lockVars>>

InitCalls ==
    /\ ControllerInit
    /\ config = << >>
    /\ stores = << >>
    /\ storeObjs = << >>
    /\ applied = 0
    /\ renders = 0
    /\ onceScrape = NoScrape
    /\ target \in DrawnStores
    /\ ncalls = 0
    /\ last = NoCall
    /\ gone = {}
    /\ mapOrder \in Orderings(ExpansionKeys)
    /\ UnitsInit
    /\ LocksInit

\* the UIDs of the items that convert
UIDsOf(items) == {items[i].uid : i \in {j \in DOMAIN items : ~convertToUnstructured(items[j]).err}}

\* every call counts
Called ==
    /\ ncalls < MaxCalls
    /\ ncalls' = ncalls + 1
    /\ UNCHANGED restVars

\* a call that renders leaves the maps to be iterated in any order by the next
Rendered == mapOrder' \in Orderings(ExpansionKeys)

\* Add
CallAdd(item) ==
    /\ Called
    /\ Rendered
    /\ LET r == StoreAdd(target, item)
       IN  /\ target' = r.store
           /\ last' = [op |-> "Add", items |-> <<item>>, err |-> r.err, text |-> <<>>]
    /\ gone' = gone \ UIDsOf(<<item>>)

\* Update
CallUpdate(item) ==
    /\ Called
    /\ Rendered
    /\ LET r == StoreUpdate(target, item)
       IN  /\ target' = r.store
           /\ last' = [op |-> "Update", items |-> <<item>>, err |-> r.err, text |-> <<>>]
    /\ gone' = gone \ UIDsOf(<<item>>)

\* Delete
CallDelete(item) ==
    /\ Called
    /\ UNCHANGED mapOrder
    /\ LET r == StoreDelete(target, item)
       IN  /\ target' = r.store
           /\ last' = [op |-> "Delete", items |-> <<item>>, err |-> r.err, text |-> <<>>]
    /\ gone' = gone \cup (UIDsOf(<<item>>) \cap DOMAIN target.metrics)

\* Replace
CallReplace(items) ==
    /\ Called
    /\ Rendered
    /\ LET r == StoreReplace(target, items)
       IN  /\ target' = r.store
           /\ last' = [op |-> "Replace", items |-> items, err |-> r.err, text |-> <<>>]
    /\ gone' = gone \ UIDsOf(items)

\* a scrape that takes the metrics out of the store
scrapeDraining(store, order) ==
    [text |-> writeFromStore(store, order), store |-> [store EXCEPT !.metrics = << >>]]

\* writeStores on one store: the text written, and the store as the read
\* lock leaves it
scrape(store, order) ==
    [text |-> writeFromStore(store, order), store |-> store]

\* a scrape; order is the iteration order of the metrics map
CallScrape(order) ==
    /\ Called
    /\ UNCHANGED mapOrder
    /\ LET r == scrape(target, order)
       IN  /\ target' = r.store
           /\ last' = [op |-> "scrape", items |-> order, err |-> FALSE, text |-> r.text]
    /\ gone' = gone

NextCalls ==
    \/ \E item \in Items : CallAdd(item)
    \/ \E item \in Items : CallUpdate(item)
    \/ \E item \in Items : CallDelete(item)
    \/ \E items \in ItemLists : CallReplace(items)
    \/ \E order \in Orderings(DOMAIN target.metrics) : CallScrape(order)

SpecCalls == InitCalls /\ [][NextCalls]_vars

\* ---------------------------------------------------------------- SpecUnits

\* the units SpecUnits exercises, one in a behaviour
Units == {"options", "resolve", "status", "inheritance"}

InitUnits ==
    /\ ControllerInit
    /\ config = << >>
    /\ stores = << >>
    /\ storeObjs = << >>
    /\ applied = 0
    /\ renders = 0
    /\ onceScrape = NoScrape
    /\ target = << >>
    /\ ncalls = 0
    /\ last = NoCall
    /\ gone = {}
    /\ mapOrder = <<"tags", "versions">>
    /\ unit \in Units
    /\ options = NoOptions
    /\ resolving = NotResolving
    /\ rmmStatus = NoStatus
    /\ inherited = NotRendered
    /\ LocksInit

\* what SpecUnits leaves alone
notUnitVars == <<baseVars, target, ncalls, last, gone, mapOrder, unit, lockVars>>

\* the process starts: Options.Read on a command line in an environment
ReadOptions(args, env) ==
    /\ unit = "options"
    /\ ~options.read
    /\ options' = OptionsRead(args, env)
    /\ UNCHANGED <<resolving, rmmStatus, inherited>>
    /\ UNCHANGED notUnitVars

\* Resolve is called: the goroutine is started and the caller waits in the
\* select
ResolveCall(query) ==
    /\ unit = "resolve"
    /\ resolving.pc = "idle"
    /\ resolving' = [resolving EXCEPT !.pc = "select", !.query = query]
    /\ UNCHANGED <<options, rmmStatus, inherited>>
    /\ UNCHANGED notUnitVars

\* the goroutine ends its evaluation, whenever that is
ResolveEvaluated ==
    /\ resolving.pc # "idle"
    /\ ~resolving.evaluated
    /\ resolving' = [resolving EXCEPT !.evaluated = TRUE,
                                      !.result = resolveWithTimeout(resolving.query, CELObject)]
    /\ UNCHANGED <<options, rmmStatus, inherited>>
    /\ UNCHANGED notUnitVars

\* the goroutine sends what it has on the channel, the one send of the
\* call, and ends
ResolveSend ==
    /\ resolving.evaluated
    /\ ~resolving.sent
    /\ sendReady(resolving.pc, 0)
    /\ resolving' = [resolving EXCEPT !.sent = TRUE]
    /\ UNCHANGED <<options, rmmStatus, inherited>>
    /\ UNCHANGED notUnitVars

\* a case of the select is ready
SelectReady == resolving.sent \/ timerFired(resolving.clock)

\* time passes while the caller waits; a caller that can run waits no
\* longer than Latency
ResolveTick ==
    /\ resolving.pc = "select"
    /\ resolving.clock < MaxClock
    /\ SelectReady => resolving.late < Latency
    /\ resolving' = [resolving EXCEPT !.clock = @ + 1,
                                      !.late = IF SelectReady THEN @ + 1 ELSE @]
    /\ UNCHANGED <<options, rmmStatus, inherited>>
    /\ UNCHANGED notUnitVars

\* case res := <-resultChan
ResolveReceive ==
    /\ resolving.pc = "select"
    /\ resolving.sent
    /\ resolving' = [resolving EXCEPT
                        !.pc = "returned", !.via = "result",
                        !.counted = IF resolving.result.err THEN "error" ELSE "success",
                        !.counters = countResult(@, resolving.result.err),
                        !.output = IF resolving.result.err
                                   THEN defaultMapping(resolving.query)
                                   ELSE resolving.result.output]
    /\ UNCHANGED <<options, rmmStatus, inherited>>
    /\ UNCHANGED notUnitVars

\* case <-time.After(cr.timeout)
ResolveTimeout ==
    /\ resolving.pc = "select"
    /\ timerFired(resolving.clock)
    /\ resolving' = [resolving EXCEPT
                        !.pc = "returned", !.via = "timer", !.counted = "timeout",
                        !.counters = [@ EXCEPT !.timeout = @ + 1],
                        !.output = defaultMapping(resolving.query)]
    /\ UNCHANGED <<options, rmmStatus, inherited>>
    /\ UNCHANGED notUnitVars

\* Status.Set
SetCondition(type, st) ==
    /\ unit = "status"
    /\ rmmStatus.sets < MaxSets
    /\ ~rmmStatus.panicked
    /\ rmmStatus' = [conditions |-> Set(rmmStatus.conditions, type, st).conditions,
                     panicked |-> Set(rmmStatus.conditions, type, st).panicked,
                     sets |-> rmmStatus.sets + 1]
    /\ UNCHANGED <<options, resolving, inherited>>
    /\ UNCHANGED notUnitVars

\* a store is built from a spec with a resolver at each level and renders
\* one object
RenderInherited(storeResolver, familyResolver, metricResolver) ==
    /\ unit = "inheritance"
    /\ ~inherited.done
    /\ inherited' =
           [done |-> TRUE, store |-> storeResolver, family |-> familyResolver,
            metric |-> metricResolver,
            text |-> generateMetricsForObject(
                         newStore(ResolverStoreSpec(storeResolver, familyResolver,
                                                    metricResolver)),
                         CELObject).metrics[1]]
    /\ UNCHANGED <<options, resolving, rmmStatus>>
    /\ UNCHANGED notUnitVars

NextUnits ==
    \/ \E args \in CommandLines, env \in Environments : ReadOptions(args, env)
    \/ \E query \in Queries : ResolveCall(query)
    \/ ResolveEvaluated
    \/ ResolveSend
    \/ ResolveTick
    \/ ResolveReceive
    \/ ResolveTimeout
    \/ \E type \in ConditionTypes, st \in ConditionStatuses : SetCondition(type, st)
    \/ \E sr \in ResolverNames, fr \in ResolverNames, mr \in ResolverNames :
           RenderInherited(sr, fr, mr)

SpecUnits == InitUnits /\ [][NextUnits]_vars

\* the goroutine of a call is scheduled whenever it can run
SpecUnitsLive ==
    SpecUnits /\ WF_vars(ResolveEvaluated) /\ WF_vars(ResolveSend)

\* ---------------------------------------------------------------- SpecLocks

\* the two writers of the repository: RLock around each store, and
\* lockAllStores around the stores of an entry
WriterVersions == {"perStore", "allStores"}

\* a store of two families, and the configuration of the RMM of SpecLocks
LockStoreSpec ==
    [Families |-> <<CallFamily("replicas", <<MetricReplicas>>),
                    CallFamily("info", <<MetricReplicas>>)>>,
     Resolver |-> ResolverTypeNone, LabelKeys |-> <<>>, LabelValues |-> <<>>]
LockConfiguration == <<LockStoreSpec, LockStoreSpec>>

\* the ids the stores of SpecLocks can get
LockStoreIDs == 1..(Len(LockConfiguration) + MaxHandlings)

\* the object the reflectors of SpecLocks see
LockObjects == {[uid |-> "x1", replicas |-> "1"]}

\* the calls the reflectors of SpecLocks make; Update is Add
LockCalls == {"Add", "Delete"}

\* what SpecLocks leaves alone
notLockVars == <<config, applied, renders, onceScrape, api, cache, workqueue, worker,
                 reflectors, cancelled, monitored, created, userOps, relists, servers,
                 target, ncalls, last, gone, mapOrder, unitVars>>

\* the RMM of SpecLocks is monitored: its stores are built, their reflectors
\* run, no request is served
InitLocks ==
    /\ ControllerInit
    /\ config = << >>
    /\ applied = 0
    /\ renders = 0
    /\ onceScrape = NoScrape
    /\ target = << >>
    /\ ncalls = 0
    /\ last = NoCall
    /\ gone = {}
    /\ mapOrder = <<"tags", "versions">>
    /\ UnitsInit
    /\ stores = build(<< >>, << >>, TheUID, LockConfiguration).stores
    /\ storeObjs = build(<< >>, << >>, TheUID, LockConfiguration).storeObjs
    /\ mutex = [id \in DOMAIN storeObjs |-> FreeMutex]
    /\ scraper = [t \in Scrapers |-> IdleScraper]
    /\ feeder = [id \in DOMAIN storeObjs |-> IdleFeeder]
    /\ registrar = IdleRegistrar
    /\ \E version \in WriterVersions :
           lockOps = [writer |-> version, scrapes |-> 0, calls |-> 0, handlings |-> 0]

\* the process has not died of a fatal error of the runtime
Alive == registrar.race # "fatal"

\* the /metrics handler of mainServer.build is called: binarySemaphore.RLock,
\* which no writer ever takes, and the range over the registry begins; order
\* is the iteration order of the map
ScrapeStart(t, order) ==
    /\ Alive
    /\ scraper[t].pc = "idle"
    /\ lockOps.scrapes < MaxScrapes
    /\ scraper' = [scraper EXCEPT ![t] = [IdleScraper EXCEPT !.pc = "entry", !.uids = order]]
    /\ lockOps' = [lockOps EXCEPT !.scrapes = @ + 1]
    /\ UNCHANGED <<stores, storeObjs, mutex, feeder, registrar>>
    /\ UNCHANGED notLockVars

\* the next entry of the range: newMetricsWriter(stores...).writeStores, which
\* returns at once for no stores; after the last entry the handler returns
ScrapeEntry(t) ==
    /\ Alive
    /\ scraper[t].pc = "entry"
    /\ LET sc == scraper[t]
           uid == Head(sc.uids)
           ids == IF uid \in DOMAIN stores THEN stores[uid] ELSE <<>>
       IN  scraper' = [scraper EXCEPT ![t] =
               IF sc.uids = <<>> THEN IdleScraper
               ELSE IF ids = <<>> THEN [sc EXCEPT !.uids = Tail(@)]
               ELSE [sc EXCEPT !.uids = Tail(@), !.ids = ids, !.k = 1, !.pc = "rlock"]]
    /\ UNCHANGED <<stores, storeObjs, mutex, feeder, registrar, lockOps>>
    /\ UNCHANGED notLockVars

\* where a scrape task goes once it holds the read lock of its store k:
\* writeStores writes that store, lockAllStores locks the next store first
AfterRLock(sc, version) ==
    IF version = "allStores" /\ sc.k < Len(sc.ids)
    THEN [sc EXCEPT !.pc = "rlock", !.k = @ + 1]
    ELSE [sc EXCEPT !.pc = "write", !.i = 1,
                    !.k = IF version = "allStores" THEN 1 ELSE @]

\* store.mutex.RLock()
ScrapeRLock(t) ==
    /\ Alive
    /\ scraper[t].pc = "rlock"
    /\ LET sc == scraper[t]
           id == sc.ids[sc.k]
           m == RLock(mutex[id], t)
       IN  /\ mutex' = [mutex EXCEPT ![id] = m]
           /\ scraper' = [scraper EXCEPT ![t] =
                  IF t \in m.readers THEN AfterRLock(sc, lockOps.writer)
                  ELSE [sc EXCEPT !.pc = "blocked"]]
    /\ UNCHANGED <<stores, storeObjs, feeder, registrar, lockOps>>
    /\ UNCHANGED notLockVars

\* the writer a reader waited for has unlocked: RLock returns
ScrapeGranted(t) ==
    /\ Alive
    /\ scraper[t].pc = "blocked"
    /\ t \in mutex[scraper[t].ids[scraper[t].k]].readers
    /\ scraper' = [scraper EXCEPT ![t] = AfterRLock(scraper[t], lockOps.writer)]
    /\ UNCHANGED <<stores, storeObjs, mutex, feeder, registrar, lockOps>>
    /\ UNCHANGED notLockVars

\* writeFromStore, one turn of its outer loop: the header of family i and
\* the fragment of that family of every UID the metrics map holds now
ScrapeWrite(t) ==
    /\ Alive
    /\ scraper[t].pc = "write"
    /\ LET sc == scraper[t]
           store == storeObjs[sc.ids[sc.k]]
           seen == DOMAIN store.metrics
           read == [sc EXCEPT !.first = IF sc.i = 1 THEN seen ELSE @,
                              !.torn = @ \/ (sc.i > 1 /\ seen # sc.first)]
       IN  scraper' = [scraper EXCEPT ![t] =
               IF sc.i < Len(store.headers) THEN [read EXCEPT !.i = @ + 1]
               ELSE IF lockOps.writer = "allStores" /\ sc.k < Len(sc.ids)
                    THEN [read EXCEPT !.k = @ + 1, !.i = 1]
               ELSE [read EXCEPT !.pc = "runlock",
                                 !.k = IF lockOps.writer = "allStores" THEN 1 ELSE @]]
    /\ UNCHANGED <<stores, storeObjs, mutex, feeder, registrar, lockOps>>
    /\ UNCHANGED notLockVars

\* store.mutex.RUnlock(): writeStores goes on to the next store,
\* unlockAllStores to the next unlock
ScrapeRUnlock(t) ==
    /\ Alive
    /\ scraper[t].pc = "runlock"
    /\ LET sc == scraper[t]
           id == sc.ids[sc.k]
       IN  /\ mutex' = [mutex EXCEPT ![id] = RUnlock(@, t)]
           /\ scraper' = [scraper EXCEPT ![t] =
                  IF sc.k < Len(sc.ids)
                  THEN [sc EXCEPT !.k = @ + 1,
                                  !.pc = IF lockOps.writer = "allStores"
                                         THEN "runlock" ELSE "rlock"]
                  ELSE [sc EXCEPT !.pc = "entry"]]
    /\ UNCHANGED <<stores, storeObjs, feeder, registrar, lockOps>>
    /\ UNCHANGED notLockVars

\* the reflector of a store calls Add, Update or Delete: s.mutex.Lock()
FeedLock(id, op, item) ==
    /\ Alive
    /\ id \in DOMAIN feeder
    /\ feeder[id].pc = "idle"
    /\ lockOps.calls < MaxFeeds
    /\ mutex' = [mutex EXCEPT ![id] = Lock(@)]
    /\ feeder' = [feeder EXCEPT ![id] =
           [pc |-> IF Lock(mutex[id]).writer = "held" THEN "locked" ELSE "waiting",
            op |-> op, item |-> item]]
    /\ lockOps' = [lockOps EXCEPT !.calls = @ + 1]
    /\ UNCHANGED <<stores, storeObjs, scraper, registrar>>
    /\ UNCHANGED notLockVars

\* the readers the writer found have left: Lock returns
FeedAcquire(id) ==
    /\ Alive
    /\ id \in DOMAIN feeder
    /\ feeder[id].pc = "waiting"
    /\ mutex[id].readers = {}
    /\ mutex' = [mutex EXCEPT ![id].writer = "held"]
    /\ feeder' = [feeder EXCEPT ![id].pc = "locked"]
    /\ UNCHANGED <<stores, storeObjs, scraper, registrar, lockOps>>
    /\ UNCHANGED notLockVars

\* the body of Add, Update or Delete under the lock
FeedApply(id) ==
    /\ Alive
    /\ id \in DOMAIN feeder
    /\ feeder[id].pc = "locked"
    /\ storeObjs' = [storeObjs EXCEPT ![id] =
           CASE feeder[id].op = "Add"    -> StoreAdd(@, feeder[id].item).store
             [] feeder[id].op = "Update" -> StoreUpdate(@, feeder[id].item).store
             [] OTHER                    -> StoreDelete(@, feeder[id].item).store]
    /\ feeder' = [feeder EXCEPT ![id].pc = "applied"]
    /\ UNCHANGED <<stores, mutex, scraper, registrar, lockOps>>
    /\ UNCHANGED notLockVars

\* the deferred s.mutex.Unlock()
FeedUnlock(id) ==
    /\ Alive
    /\ id \in DOMAIN feeder
    /\ feeder[id].pc = "applied"
    /\ mutex' = [mutex EXCEPT ![id] = Unlock(@)]
    /\ feeder' = [feeder EXCEPT ![id] = IdleFeeder]
    /\ UNCHANGED <<stores, storeObjs, scraper, registrar, lockOps>>
    /\ UNCHANGED notLockVars

\* what a write of the registry map does to the process while a handler
\* ranges over the map: the map is a plain map and the handler holds only the
\* read side of a lock no writer takes, so the write races with the range;
\* the runtime may notice and end the process, or not
RegistryWrite(race) ==
    IF \E t \in Scrapers : scraper[t].pc # "idle"
    THEN {"fatal", "unnoticed"}
    ELSE {race}

\* the worker handles an add or update event of the RMM: stores.Delete
RegDelete(uid) ==
    /\ Alive
    /\ registrar.pc = "idle"
    /\ lockOps.handlings < MaxHandlings
    /\ uid \in DOMAIN stores
    /\ stores' = DeleteEntry(stores, uid)
    /\ \E race \in RegistryWrite(registrar.race) :
           registrar' = [pc |-> "build", uid |-> uid, race |-> race]
    /\ lockOps' = [lockOps EXCEPT !.handlings = @ + 1]
    /\ UNCHANGED <<storeObjs, mutex, scraper, feeder>>
    /\ UNCHANGED notLockVars

\* configurer.build with a configuration of one store: the store is built,
\* its reflector started, and the store appended to the entry
RegBuild ==
    /\ Alive
    /\ registrar.pc = "build"
    /\ LET r == build(stores, storeObjs, registrar.uid, <<LockStoreSpec>>)
       IN  /\ stores' = r.stores
           /\ storeObjs' = r.storeObjs
           /\ mutex' = [id \in DOMAIN r.storeObjs |->
                  IF id \in DOMAIN mutex THEN mutex[id] ELSE FreeMutex]
           /\ feeder' = [id \in DOMAIN r.storeObjs |->
                  IF id \in DOMAIN feeder THEN feeder[id] ELSE IdleFeeder]
    /\ \E race \in RegistryWrite(registrar.race) :
           registrar' = [registrar EXCEPT !.pc = "idle", !.race = race]
    /\ UNCHANGED <<scraper, lockOps>>
    /\ UNCHANGED notLockVars

\* the steps of one scrape task once its request has come in, and the steps
\* of one reflector on the lock of its store
ScrapeStep(t) ==
    \/ ScrapeEntry(t)
    \/ ScrapeRLock(t)
    \/ ScrapeGranted(t)
    \/ ScrapeWrite(t)
    \/ ScrapeRUnlock(t)
FeedStep(id) ==
    \/ FeedAcquire(id)
    \/ FeedUnlock(id)

\* scrapes and reflectors, the registry left as it is
NextFeeds ==
    \/ \E t \in Scrapers, order \in Orderings(DOMAIN stores) : ScrapeStart(t, order)
    \/ \E t \in Scrapers : ScrapeEntry(t)
    \/ \E t \in Scrapers : ScrapeRLock(t)
    \/ \E t \in Scrapers : ScrapeGranted(t)
    \/ \E t \in Scrapers : ScrapeWrite(t)
    \/ \E t \in Scrapers : ScrapeRUnlock(t)
    \/ \E id \in LockStoreIDs, op \in LockCalls, item \in LockObjects :
           FeedLock(id, op, item)
    \/ \E id \in LockStoreIDs : FeedAcquire(id)
    \/ \E id \in LockStoreIDs : FeedApply(id)
    \/ \E id \in LockStoreIDs : FeedUnlock(id)

SpecFeeds == InitLocks /\ [][NextFeeds]_vars

\* every task is a goroutine that keeps running: a scrape takes its next
\* step, a reflector gets a lock that is free and releases the one it holds,
\* and the body of Add and Delete, which waits for nothing, returns
SpecFeedsLive ==
    /\ SpecFeeds
    /\ \A t \in Scrapers : WF_vars(ScrapeStep(t))
    /\ \A id \in DOMAIN LockConfiguration : WF_vars(FeedStep(id))
    /\ \A id \in DOMAIN LockConfiguration : []<>(feeder[id].pc # "locked")

\* scrapes, reflectors and the worker
NextLocks ==
    \/ NextFeeds
    \/ \E uid \in DOMAIN stores : RegDelete(uid)
    \/ RegBuild

SpecLocks == InitLocks /\ [][NextLocks]_vars

\* ---------------------------------------------------------------- Spec: users and informer

\* the informer factory is started with the root context's Done channel: once
\* that is cancelled no write of a user reaches the program any more
InformerRuns == "root" \notin cancelled

\* a write reaches the API server; the informer stores the object and calls
\* the UpdateFunc with the object it
\* held and the new one; wk is the workers as the step leaves them
Commit(new, wk) ==
    /\ api' = [api EXCEPT ![new.name] = [new EXCEPT !.rv = Current]]
    /\ cache' = [cache EXCEPT ![new.name] = [new EXCEPT !.rv = Current]]
    /\ workqueue' = updateHandler(workqueue, cache[new.name], new)
    /\ worker' = [v \in Workers |->
           IF wk[v].got.uid = new.uid THEN [wk[v] EXCEPT !.got.rv = Stale] ELSE wk[v]]

\* a user creates an RMM; the informer calls the AddFunc
UserCreate(name, cfg) ==
    /\ InformerRuns
    /\ userOps < MaxUserOps
    /\ ~Exists(api[name])
    /\ LET new == NewRMM(name, UIDOf(created + 1), cfg)
       IN  /\ api' = [api EXCEPT ![name] = new]
           /\ cache' = [cache EXCEPT ![name] = new]
           /\ workqueue' = enqueue(workqueue, new, addEvent)
    /\ created' = created + 1
    /\ userOps' = userOps + 1
    /\ UNCHANGED <<worker, stores, storeObjs, reflectors, cancelled, monitored, relists,
                   servers>>
    /\ UNCHANGED storeOnlyVars

\* a user writes an RMM: the configuration is replaced, or, with the
\* configuration it has, only its metadata changes
UserEdit(name, cfg) ==
    /\ InformerRuns
    /\ userOps < MaxUserOps
    /\ Exists(api[name])
    /\ Commit([api[name] EXCEPT !.cfg = cfg, !.rv = @ + 1], worker)
    /\ userOps' = userOps + 1
    /\ UNCHANGED <<stores, storeObjs, reflectors, cancelled, monitored,
                   created, relists, servers>>
    /\ UNCHANGED storeOnlyVars

\* a user deletes an RMM; the informer calls the DeleteFunc
UserDelete(name) ==
    /\ InformerRuns
    /\ userOps < MaxUserOps
    /\ Exists(api[name])
    /\ api' = [api EXCEPT ![name] = NoObj]
    /\ cache' = [cache EXCEPT ![name] = NoObj]
    /\ workqueue' = enqueue(workqueue, api[name], deleteEvent)
    /\ userOps' = userOps + 1
    /\ UNCHANGED <<worker, stores, storeObjs, reflectors, cancelled, monitored,
                   created, relists, servers>>
    /\ UNCHANGED storeOnlyVars

\* the informer lists again: an object it holds comes back as it is and the
\* UpdateFunc is called with the same object as old and new
InformerRelist(name) ==
    /\ InformerRuns
    /\ relists < MaxRelist
    /\ Exists(cache[name])
    /\ workqueue' = updateHandler(workqueue, cache[name], cache[name])
    /\ relists' = relists + 1
    /\ UNCHANGED <<api, cache, worker, stores, storeObjs, reflectors, cancelled,
                   monitored, created, userOps, servers>>
    /\ UNCHANGED storeOnlyVars

\* the root context is cancelled (a termination signal)
Cancel ==
    /\ "root" \notin cancelled
    /\ cancelled' = cancelled \cup {"root"}
    /\ UNCHANGED <<api, cache, workqueue, worker, stores, storeObjs, reflectors,
                   monitored, created, userOps, relists, servers>>
    /\ UNCHANGED storeOnlyVars

\* Controller.Run after <-ctx.Done(): Shutdown of the two servers, return,
\* and the deferred workqueue.ShutDown
ShutDown ==
    /\ "root" \in cancelled
    /\ ~workqueue.shuttingDown
    /\ servers' = Shutdown(servers)
    /\ workqueue' = [workqueue EXCEPT !.shuttingDown = TRUE]
    /\ UNCHANGED <<api, cache, worker, stores, storeObjs, reflectors, cancelled,
                   monitored, created, userOps, relists>>
    /\ UNCHANGED storeOnlyVars

\* ---------------------------------------------------------------- Spec: the worker

\* what the frame of a worker step leaves alone
WorkerFrame ==
    /\ UNCHANGED <<cancelled, created, userOps, relists, servers>>
    /\ UNCHANGED storeOnlyVars

\* a call of the clientset succeeds only while the context lives
Live == "root" \notin cancelled

\* wait.PollUntilContextTimeout after a call of the condition
PollResult(done, err, polls) ==
    IF err THEN "error"
    ELSE IF done THEN "done"
    ELSE IF polls < PollLimit THEN "again" ELSE "timeout"

\* a handler that reports success straight after updateMetadata
AfterPollProcessed(result) ==
    CASE result = "done"  -> "processed"
      [] result = "again" -> "meta"
      [] OTHER            -> "forget"

\* where validateAndPrepareResource stands after updateMetadata's poll
AfterPoll(result) ==
    CASE result = "done"  -> "received"
      [] result = "again" -> "meta"
      [] OTHER            -> "forget"

\* processNextWorkItem: Get, then syncHandler up to handleEvent: the key is
\* looked up in the lister; an RMM not found is replaced by one with the
\* name alone
Dequeue(w) ==
    /\ worker[w].pc = "idle"
    /\ \A v \in Workers : v < w => worker[v].pc # "idle"
    /\ WQGetReady(workqueue)
    /\ LET item == Head(workqueue.queue)
           ns == item[1][1]
           name == item[1][2]
           found == ns = Namespace /\ Exists(cache[name])
           listerErr == ~found
           isNotFound == ~found
           o == IF found THEN [uid |-> cache[name].uid, ns |-> ns, name |-> name]
                ELSE [uid |-> "", ns |-> "", name |-> name]
           failed == listerErr /\ ~isNotFound
       IN  /\ workqueue' = WQGet(workqueue)
           /\ worker' = [worker EXCEPT ![w] =
                  [IdleWorker EXCEPT !.pc = IF failed THEN "forget" ELSE "meta",
                                     !.item = item, !.o = o, !.err = failed]]
    /\ UNCHANGED <<api, cache, stores, storeObjs, reflectors, monitored>>
    /\ WorkerFrame

\* updateMetadata, the condition of the poll: Get
MetaGet(w) ==
    /\ worker[w].pc = "meta"
    /\ IF "root" \in cancelled
       THEN worker' = [worker EXCEPT ![w].pc = "forget"]
       ELSE LET g == ClientGet(worker[w].o.ns, worker[w].o.name)
                err == g.err
            IN  worker' = [worker EXCEPT
                   ![w].polls = @ + 1,
                   ![w].got = IF err THEN NoObj ELSE g.obj,
                   ![w].apiErr = err,
                   ![w].pc = IF err THEN AfterPoll(PollResult(FALSE, TRUE, worker[w].polls + 1))
                             ELSE "update"]
    /\ UNCHANGED <<api, cache, workqueue, stores, storeObjs, reflectors, monitored>>
    /\ WorkerFrame

\* updateMetadata, the condition of the poll: the labels are set on the copy
\* and it is sent with Update
MetaUpdate(w) ==
    /\ worker[w].pc = "update"
    /\ LET sent == [worker[w].got EXCEPT !.managed = TRUE]
           ok == Live /\ ClientUpdateOK(sent)
       IN  IF ok
           THEN Commit([sent EXCEPT !.rv = @ + 1],
                       [worker EXCEPT
                           ![w].got = NoObj,
                           ![w].pc = AfterPoll(PollResult(TRUE, FALSE, worker[w].polls))])
           ELSE /\ worker' = [worker EXCEPT
                       ![w].apiErr = TRUE,
                       ![w].conflict = Exists(api[sent.name]) /\ ~ClientUpdateOK(sent),
                       ![w].pc = AfterPoll(PollResult(FALSE, TRUE, worker[w].polls))]
                /\ UNCHANGED <<api, cache, workqueue>>
    /\ UNCHANGED <<stores, storeObjs, reflectors, monitored>>
    /\ WorkerFrame

\* validateAndPrepareResource after its emitSuccess: an empty configuration
\* goes to emitFailure and ends the handling
preparedAnyway(cfg) == "drop"
prepared(cfg) == IF cfg = "" THEN "failure" ELSE "drop"

\* emitSuccess: Get, Status.Set of Processed, UpdateStatus
emitSuccess(w, status, pcOK, pcErr) ==
    LET g == ClientGet(worker[w].o.ns, worker[w].o.name)
        ok == Live /\ ~g.err
        new == [StatusSet(g.obj, "Processed", status) EXCEPT !.rv = @ + 1]
    IN  IF ok
        THEN Commit(new,
                 [worker EXCEPT
                    ![w].resource = [uid |-> new.uid, ns |-> new.ns, name |-> new.name,
                                     cfg |-> new.cfg],
                    ![w].events = IF status = "True" THEN Append(@, "success") ELSE @,
                    ![w].wrote = Append(@, <<"Processed", status>>),
                    ![w].pc = IF status = "False" THEN prepared(new.cfg) ELSE pcOK,
                    ![w].reason = IF status = "False" /\ prepared(new.cfg) = "failure"
                                  THEN "empty" ELSE @])
        ELSE /\ worker' = [worker EXCEPT
                    ![w].apiErr = TRUE,
                    ![w].events = IF status = "True" THEN Append(@, "failed") ELSE @,
                    ![w].pc = pcErr]
             /\ UNCHANGED <<api, cache, workqueue>>

\* validateAndPrepareResource: emitSuccess with ConditionFalse, then the
\* check for an empty configuration
EmitReceived(w) ==
    /\ worker[w].pc = "received"
    /\ emitSuccess(w, "False", "drop", "forget")
    /\ UNCHANGED <<stores, storeObjs, reflectors, monitored>>
    /\ WorkerFrame

\* emitFailure: Get, Status.Set of Failed, UpdateStatus; errors are only
\* logged.  After a parse failure processAddOrUpdate and handleEvent both
\* count the event as failed.
EmitFailure(w) ==
    /\ worker[w].pc = "failure"
    /\ LET g == ClientGet(worker[w].resource.ns, worker[w].resource.name)
           ok == Live /\ ~g.err
           wk == [worker EXCEPT
                  ![w].apiErr = @ \/ ~ok,
                  ![w].events = IF worker[w].reason = "parse"
                                THEN @ \o <<"failed", "failed">> ELSE @,
                  ![w].parseErrors = IF worker[w].reason = "parse" THEN @ + 1 ELSE @,
                  ![w].wrote = IF ok THEN Append(@, <<"Failed", "True">>) ELSE @,
                  ![w].pc = "forget"]
       IN  IF ok
           THEN Commit([StatusSet(g.obj, "Failed", "True") EXCEPT !.rv = @ + 1], wk)
           ELSE /\ worker' = wk
                /\ UNCHANGED <<api, cache, workqueue>>
    /\ UNCHANGED <<stores, storeObjs, reflectors, monitored>>
    /\ WorkerFrame

\* processAddOrUpdate, processDelete: stores.Delete of the resource's UID;
\* a delete event ends here, an add or update event parses the configuration
Drop(w) ==
    /\ worker[w].pc = "drop"
    /\ stores' = DeleteEntry(stores, worker[w].resource.uid)
    /\ IF worker[w].item[2] = deleteEvent
       THEN /\ monitored' = monitored \ {MetaNamespaceKeyFunc(worker[w].resource)}
            /\ worker' = [worker EXCEPT ![w].pc = "processed", ![w].dispatched = TRUE]
       ELSE /\ monitored' = monitored
            /\ worker' = [worker EXCEPT
                   ![w].pc = IF parse(worker[w].resource.cfg).err THEN "failure" ELSE "build",
                   ![w].reason = IF parse(worker[w].resource.cfg).err THEN "parse" ELSE @]
    /\ UNCHANGED <<api, cache, workqueue, storeObjs, reflectors>>
    /\ WorkerFrame

\* processAddOrUpdate: configurer.build; each store built gets a reflector
\* started under the context of the worker
Build(w) ==
    /\ worker[w].pc = "build"
    /\ LET r == build(stores, storeObjs, worker[w].resource.uid,
                      parse(worker[w].resource.cfg).Stores)
       IN  /\ stores' = r.stores
           /\ storeObjs' = r.storeObjs
           /\ reflectors' = [id \in DOMAIN r.storeObjs |->
                  IF id \in DOMAIN reflectors THEN reflectors[id] ELSE "root"]
    /\ monitored' = monitored \cup {MetaNamespaceKeyFunc(worker[w].resource)}
    /\ worker' = [worker EXCEPT ![w].pc = "processed", ![w].dispatched = TRUE]
    /\ UNCHANGED <<api, cache, workqueue>>
    /\ WorkerFrame

\* handleEvent: emitSuccess with ConditionTrue and the events counter
EmitProcessed(w) ==
    /\ worker[w].pc = "processed"
    /\ emitSuccess(w, "True", "forget", "forget")
    /\ UNCHANGED <<stores, storeObjs, reflectors, monitored>>
    /\ WorkerFrame

\* processNextWorkItem: AddRateLimited when syncHandler returned an error,
\* Forget otherwise
Forget(w) ==
    /\ worker[w].pc = "forget"
    /\ workqueue' = IF worker[w].err THEN WQAddRateLimited(workqueue, worker[w].item)
                    ELSE WQForget(workqueue, worker[w].item)
    /\ worker' = [worker EXCEPT ![w].pc = "done"]
    /\ UNCHANGED <<api, cache, stores, storeObjs, reflectors, monitored>>
    /\ WorkerFrame

\* processNextWorkItem: the deferred Done
Done(w) ==
    /\ worker[w].pc = "done"
    /\ workqueue' = WQDone(workqueue, worker[w].item)
    /\ worker' = [worker EXCEPT ![w] = IdleWorker]
    /\ UNCHANGED <<api, cache, stores, storeObjs, reflectors, monitored>>
    /\ WorkerFrame

\* ---------------------------------------------------------------- Spec

Init ==
    /\ ControllerInit
    /\ CallsInit
    /\ stores = << >>
    /\ storeObjs = << >>
    /\ config = << >>
    /\ applied = 0
    /\ renders = 0
    /\ onceScrape = NoScrape

Next ==
    \/ \E name \in Names, cfg \in ConfigTexts : UserCreate(name, cfg)
    \/ \E name \in Names, cfg \in ConfigTexts : UserEdit(name, cfg)
    \/ \E name \in Names : UserDelete(name)
    \/ \E name \in Names : InformerRelist(name)
    \/ Cancel
    \/ ShutDown
    \/ \E w \in Workers : Dequeue(w)
    \/ \E w \in Workers : MetaGet(w)
    \/ \E w \in Workers : MetaUpdate(w)
    \/ \E w \in Workers : EmitReceived(w)
    \/ \E w \in Workers : EmitFailure(w)
    \/ \E w \in Workers : Drop(w)
    \/ \E w \in Workers : Build(w)
    \/ \E w \in Workers : EmitProcessed(w)
    \/ \E w \in Workers : Forget(w)
    \/ \E w \in Workers : Done(w)

Spec == Init /\ [][Next]_vars

\* ---------------------------------------------------------------- SpecRunning

\* the RMM a user created with the configuration of one store, after the
\* handler processed its add event
RunningRMM ==
    [NewRMM("a", UIDOf(1), "c1") EXCEPT !.managed = TRUE, !.processed = "True"]

\* the controller at rest with that RMM monitored: a state Spec reaches, from
\* which the users have all their writes left
Running ==
    /\ api = [n \in Names |-> RunningRMM]
    /\ cache = [n \in Names |-> RunningRMM]
    /\ workqueue = EmptyQueue
    /\ worker = [w \in Workers |-> IdleWorker]
    /\ stores = build(<< >>, << >>, RunningRMM.uid, parse(RunningRMM.cfg).Stores).stores
    /\ storeObjs = build(<< >>, << >>, RunningRMM.uid, parse(RunningRMM.cfg).Stores).storeObjs
    /\ reflectors = [id \in DOMAIN storeObjs |-> "root"]
    /\ cancelled = {}
    /\ monitored = {MetaNamespaceKeyFunc(RunningRMM)}
    /\ created = 1
    /\ relists = 0
    /\ servers = Listening

InitRunning ==
    /\ Running
    /\ userOps = 0
    /\ CallsInit
    /\ config = << >>
    /\ applied = 0
    /\ renders = 0
    /\ onceScrape = NoScrape

SpecRunning == InitRunning /\ [][Next]_vars

\* every worker is a goroutine that keeps running processNextWorkItem
WorkerStep(w) ==
    \/ Dequeue(w)
    \/ MetaGet(w)
    \/ MetaUpdate(w)
    \/ EmitReceived(w)
    \/ EmitFailure(w)
    \/ Drop(w)
    \/ Build(w)
    \/ EmitProcessed(w)
    \/ Forget(w)
    \/ Done(w)

SpecLive == Spec /\ \A w \in Workers : WF_vars(WorkerStep(w))

\* and Run goes on after <-ctx.Done()
SpecStop == SpecLive /\ WF_vars(ShutDown)

\* ---------------------------------------------------------------- claims on SpecStore

\* the store spec a live store was built from
SpecOf(k) == config[k]

\* C5: handling the same RMM twice yields the same scrape output as handling
\* it once: with the stores fed the same objects as before the second run,
\* the possible scrape responses are the ones of before.
C5_SameScrapeAfterReapply ==
    (onceScrape.taken /\ LiveObjects = onceScrape.objs)
        => ScrapeTexts = onceScrape.texts

\* C6: every render of an object produces the fragments its first render by
\* a fresh store produces: repeated Add/Update calls do not grow the labels.
C6_RendersAreStable ==
    \A k \in DOMAIN StoresOf(TheUID) :
        LET s == storeObjs[StoresOf(TheUID)[k]]
        IN  \A u \in DOMAIN s.metrics :
                s.metrics[u] = generateMetricsForObject(newStore(SpecOf(k)), s.objs[u]).metrics

\* C7: for every store and every UID in its metrics map, the number of
\* fragments stored for the UID equals the number of headers of the store.
C7_FragmentsMatchHeaders ==
    \A id \in StoreIDs :
        \A u \in DOMAIN storeObjs[id].metrics :
            Len(storeObjs[id].metrics[u]) = Len(storeObjs[id].headers)

\* an object was added and then updated in a store of two families
C7_Witness ==
    /\ applied = 1
    /\ renders >= 2
    /\ \E id \in StoreIDs :
        /\ Len(storeObjs[id].headers) = 2
        /\ Cardinality(DOMAIN storeObjs[id].metrics) = 1

\* C8: a metric whose label keys and label values differ in length when they
\* are evaluated together contributes no sample to the fragment.
C8_MismatchEmitsNothing ==
    \A id \in StoreIDs :
        LET s == storeObjs[id]
        IN  \A i \in DOMAIN s.Families : \A j \in DOMAIN s.Families[i].Metrics :
                LET m == s.Families[i].Metrics[j]
                IN  \A u \in DOMAIN s.metrics :
                        ~validateLabelLengths(m.LabelKeys, m.LabelValues)
                            => MetricText(s.Families[i], m, s.objs[u]) = <<>>

\* the header lines of a response that introduce a family name
HeadersOf(t, n) == {i \in DOMAIN t : t[i].kind = "header" /\ t[i].name = n}

\* the header a line of a response stands under
HeaderAbove(t, i) ==
    LET hs == {h \in 1..i : t[h].kind = "header"}
    IN  IF hs = {} THEN 0 ELSE CHOOSE h \in hs : \A g \in hs : g <= h

\* C9: within one scrape the samples of a family name stand together under
\* exactly one header of that name.
C9_OneHeaderPerFamily ==
    \A t \in ScrapeTexts :
        \A i \in DOMAIN t :
            /\ Cardinality(HeadersOf(t, t[i].name)) = 1
            /\ HeaderAbove(t, i) \in HeadersOf(t, t[i].name)

\* ---------------------------------------------------------------- claims on Spec

\* every event the informer delivered has been handled to the end
Quiescent ==
    /\ "root" \notin cancelled
    /\ workqueue.queue = <<>>
    /\ workqueue.dirty = {}
    /\ workqueue.processing = {}
    /\ workqueue.waiting = {}
    /\ \A w \in Workers : worker[w].pc = "idle"

\* C1: once the delete event of an RMM has been handled, the registry holds
\* no entry for the UID of that RMM: with every event handled, each entry of
\* the registry belongs to an RMM that exists.
C1_NoEntryAfterDelete ==
    Quiescent => \A uid \in DOMAIN stores : \E name \in Names : api[name].uid = uid

\* C2: when the handler has dropped stores of an RMM, the context of the
\* reflectors feeding them is cancelled: with no handler running, a reflector
\* under a live context feeds a store the registry holds.
C2_DroppedStoresAreCancelled ==
    (\A w \in Workers : worker[w].pc = "idle")
        => \A id \in DOMAIN reflectors : id \in LiveStores \/ reflectors[id] \in cancelled

\* C3: a work item during whose handling an API call failed is added back
\* rate-limited and not forgotten: when the worker reaches Done it waits for
\* its back-off.
C3_FailedItemIsRequeued ==
    \A w \in Workers :
        (worker[w].pc = "done" /\ worker[w].apiErr)
            => worker[w].item \in workqueue.waiting

\* C4: a conflict on the metadata Update does not end the reconciliation of
\* the metadata: the poll calls the condition again.
C4_ConflictIsRetried ==
    \A w \in Workers :
        (worker[w].conflict /\ worker[w].pc \in {"forget", "done"})
            => worker[w].polls > 1

\* C10: an informer update event whose old and new object have the same
\* resourceVersion (a relist) or deep-equal Specs (a write of a user that
\* keeps the configuration, a write of the handler) adds no item to the
\* workqueue.
C10_FilteredUpdateAddsNothing ==
    [][\A name \in Names, w \in Workers :
          (\/ InformerRelist(name)
           \/ (Exists(api[name]) /\ UserEdit(name, api[name].cfg))
           \/ MetaUpdate(w) \/ EmitReceived(w) \/ EmitFailure(w) \/ EmitProcessed(w))
              => workqueue' = workqueue]_vars

\* the informer has relisted, the handler has written the labels and both
\* conditions of an RMM, and the queue holds no item
C10_Witness ==
    /\ relists > 0
    /\ \E name \in Names : Exists(api[name]) /\ api[name].managed /\ api[name].processed = "True"
    /\ ~workqueue.shuttingDown
    /\ workqueue.queue = <<>>
    /\ workqueue.dirty = {}

\* the name of the RMM a worker handles
NameOf(w) == worker[w].o.name

\* the worker takes a step of the handler
Steps(w) == worker'[w] # worker[w]

\* the worker has written the condition for the item it handles
Wrote(w, type, status) == <<type, status>> \in Range(worker[w].wrote)

\* the step of the worker writes the condition
Writes(w, type, status) ==
    /\ Len(worker'[w].wrote) = Len(worker[w].wrote) + 1
    /\ worker'[w].wrote[Len(worker'[w].wrote)] = <<type, status>>

Moves(w) == worker'[w].pc # worker[w].pc

\* C13: a handler step that modifies the registry (or the stores, the
\* reflectors, the monitored gauge) is taken only after the same handling
\* has written Processed=False, and Processed=True is written only by a
\* handling that wrote Processed=False and whose dispatch (processAddOrUpdate
\* or processDelete) returned without error.
C13_ReceivedBeforeProcessed ==
    [][\A w \in Workers :
          /\ (Moves(w) /\ <<stores, storeObjs, reflectors, monitored>>'
                             # <<stores, storeObjs, reflectors, monitored>>)
                => Wrote(w, "Processed", "False")
          /\ (Moves(w) /\ worker[w].pc \in {"drop", "build"})
                => Wrote(w, "Processed", "False")
          /\ Writes(w, "Processed", "True")
                => /\ Wrote(w, "Processed", "False")
                   /\ worker[w].dispatched
                   /\ worker[w].reason = ""
                   /\ ~Wrote(w, "Failed", "True")
                   /\ worker[w].item[2] # deleteEvent
                         => ~parse(worker[w].resource.cfg).err]_vars

\* an add event handled to the end: Processed=False, the build, Processed=True
C13_Witness ==
    \E w \in Workers :
        /\ worker[w].pc = "forget"
        /\ worker[w].item[2] = addEvent
        /\ worker[w].dispatched
        /\ worker[w].wrote = <<(<<"Processed", "False">>), (<<"Processed", "True">>)>>
        /\ worker[w].resource.uid \in DOMAIN stores
        /\ api[NameOf(w)].processed = "True"

\* ---------------------------------------------------------------- claims on SpecCalls

\* the step is a call of op
Calls(op) == ncalls' = ncalls + 1 /\ last'.op = op

\* the UIDs the metrics map of the store has an entry for
Held(store) == DOMAIN store.metrics

\* C14: an object added to the store and then deleted has no entry in the
\* metrics map, and keeps having none whatever is added, updated or deleted
\* for other UIDs: Delete takes out the entry of its object and no other,
\* Add and Update put in the entry of their object and touch no other.
C14_DeletedStaysOut ==
    [][/\ \A uid \in gone' : uid \notin Held(target')
       /\ (Calls("Delete") /\ ~last'.err)
             => Held(target') = Held(target) \ {last'.items[1].uid}
       /\ ((Calls("Add") \/ Calls("Update")) /\ ~last'.err)
             => Held(target') = Held(target) \cup {last'.items[1].uid}]_vars

\* x1 was added and deleted, x2 added after that: the map holds x2 alone
C14_Witness ==
    /\ gone = {"x1"}
    /\ last.op = "Add" /\ ~last.err /\ last.items[1].uid = "x2"
    /\ Held(target) = {"x2"}
    /\ ncalls = MaxCalls

\* C15: a scrape leaves every store as it found it: the metrics map, the
\* headers and the families are the same after it.
C15_ScrapeReadsOnly ==
    [][Calls("scrape") => /\ target'.metrics = target.metrics
                          /\ target'.headers = target.headers
                          /\ target' = target]_vars

\* a scrape of a store that holds fragments has written text
C15_Witness ==
    /\ last.op = "scrape"
    /\ last.text # <<>>
    /\ Cardinality(Held(target)) = 2
    /\ \E uid \in Held(target) : target.metrics[uid] # <<>>

\* the store after Add of the first k items, one after the other
RECURSIVE AddedUpTo(_, _, _)
AddedUpTo(s, items, k) ==
    IF k = 0 THEN s ELSE StoreAdd(AddedUpTo(s, items, k - 1), items[k]).store

\* C16: Replace leaves the store as Add of every item, first to last, leaves
\* it, the items that Add refuses being passed over: every item that
\* converts has its entry afterwards, also one that follows a refused item,
\* and Replace returns no error.
C16_ReplaceAddsEveryItem ==
    [][Calls("Replace")
          => /\ ~last'.err
             /\ target' = AddedUpTo(target, last'.items, Len(last'.items))
             /\ \A i \in DOMAIN last'.items :
                   (~convertToUnstructured(last'.items[i]).err)
                      => (/\ last'.items[i].uid \in Held(target')
                          /\ target'.objs[last'.items[i].uid] = last'.items[i])
             /\ Held(target') = Held(target) \cup UIDsOf(last'.items)]_vars

\* Replace of an item that is no object followed by an object: the object
\* is in the map and no error came back
C16_Witness ==
    /\ last.op = "Replace" /\ ~last.err
    /\ Len(last.items) = 2
    /\ last.items[1] = NotAnObject
    /\ last.items[2] \in CallObjects
    /\ last.items[2].uid \in Held(target)
    /\ ncalls = 1

\* the metric is one the renderer cannot render for the object: its resolver
\* is unknown, its label keys and label values differ in length, or its
\* value resolves to nothing or to no number
CannotRender(s, f, metric, obj) ==
    LET r == FamilyResolver(inheritFamilyConfiguration(f, s), metric.Resolver)
        val == Resolve(r.resolver, metric.Value, obj)
    IN  \/ r.err
        \/ Len(metric.LabelKeys) # Len(metric.LabelValues)
        \/ metric.Value \notin DOMAIN val
        \/ ~ParseFloat(val[metric.Value]).ok

\* the store without the metrics that cannot be rendered for the object
WithoutFailing(s, obj) ==
    [s EXCEPT !.Families =
        [i \in DOMAIN s.Families |->
            [s.Families[i] EXCEPT !.Metrics =
                SelectSeq(s.Families[i].Metrics,
                          LAMBDA m : ~CannotRender(s, s.Families[i], m, obj))]]]

\* C17: the fragments Add stores for an object are the fragments the store
\* would render without the metrics that cannot be rendered: such a metric
\* contributes no text, and the other metrics and families are rendered as
\* if it were absent.
C17_FailuresAreContained ==
    [][(Calls("Add") /\ ~last'.err)
          => target'.metrics[last'.items[1].uid]
                = generateMetricsForObject(WithoutFailing(target, last'.items[1]),
                                           last'.items[1]).metrics]_vars

\* the line the writer owes for a header: the header and a newline
HeaderLine(header) ==
    [kind |-> "header", name |-> header.name, keys |-> <<>>, values |-> <<>>,
     value |-> header.help \o "\n" \o header.type \o "\n"]

\* fragment i of the UIDs from position j of the order on, for the UIDs that
\* have one
RECURSIVE FragmentsAt(_, _, _, _)
FragmentsAt(store, order, i, j) ==
    IF j > Len(order) THEN <<>>
    ELSE (IF Len(store.metrics[order[j]]) >= i THEN store.metrics[order[j]][i] ELSE <<>>)
         \o FragmentsAt(store, order, i, j + 1)

\* what is owed from family index i on
RECURSIVE EmittedFrom(_, _, _)
EmittedFrom(store, order, i) ==
    IF i > Len(store.headers) THEN <<>>
    ELSE <<HeaderLine(store.headers[i])>> \o FragmentsAt(store, order, i, 1)
         \o EmittedFrom(store, order, i + 1)

\* C18: the text of a scrape of a store is, for each family index up to the
\* number of headers and in that order, the header and a newline, then the
\* fragment at that index of every UID that has one; a fragment at an index
\* beyond the headers is not written.
C18_WriterFollowsHeaders ==
    last.op = "scrape"
        => /\ last.text = EmittedFrom(target, last.items, 1)
           /\ SelectSeq(last.text, LAMBDA l : l.kind = "header")
                 = [i \in DOMAIN target.headers |-> HeaderLine(target.headers[i])]
           /\ \A k \in DOMAIN last.text, uid \in Held(target) :
                 \A i \in (Len(target.headers) + 1)..Len(target.metrics[uid]) :
                     target.metrics[uid][i] # <<>>
                        => last.text[k] \notin Range(target.metrics[uid][i])

\* a scrape of a store with two headers, a UID with more fragments than that
\* and a UID with fewer
C18_Witness ==
    /\ last.op = "scrape"
    /\ Len(target.headers) = 2
    /\ \E uid \in Held(target) : Len(target.metrics[uid]) > 2
    /\ \E uid \in Held(target) : Len(target.metrics[uid]) = 1
    /\ Len(last.text) = 5

\* the value a sample carries under a label key
LabelOf(sample, key) ==
    sample.values[CHOOSE p \in DOMAIN sample.keys : sample.keys[p] = key]

\* the elements the lists of the object bring to the bucket of a parent key,
\* for the label values of the metric
ListBucket(metric, obj, parent) ==
    Flatten([i \in DOMAIN metric.LabelValues |->
        LET paths == {p \in DOMAIN ObjectLists(obj) :
                         /\ metric.LabelValues[i] = "o." \o p
                         /\ FieldParent[p] = parent}
        IN  IF paths = {} THEN <<>> ELSE ObjectLists(obj)[CHOOSE p \in paths : TRUE]])

\* the element that stands at position j once the bucket is in byte order
Smallest(bucket, j) ==
    CHOOSE x \in Range(bucket) :
        /\ Cardinality({k \in DOMAIN bucket : SortRank[bucket[k]] < SortRank[x]}) < j
        /\ j <= Cardinality({k \in DOMAIN bucket : SortRank[bucket[k]] <= SortRank[x]})

\* the metrics of SpecCalls that render with list-valued labels
ExpandingMetrics == {MetricVersions, MetricTagsAndVersions}

\* C19: the fragment of a metric with list-valued labels has as many samples
\* as its longest bucket has elements, and sample j carries, under the key
\* of each bucket, the element at position j of the bucket in sorted order,
\* or the empty string when the bucket has fewer than j elements.
C19_ExpansionFollowsTheBuckets ==
    \A uid \in Held(target) \cap DOMAIN target.objs, i \in DOMAIN target.Families :
        \A n \in DOMAIN target.Families[i].Metrics :
            LET m == target.Families[i].Metrics[n]
                obj == target.objs[uid]
                parents == {p \in ExpansionKeys : ListBucket(m, obj, p) # <<>>}
                fragment == target.metrics[uid][i]
            IN  (m \in ExpandingMetrics /\ parents # {})
                    => /\ \E p \in parents : Len(fragment) = Len(ListBucket(m, obj, p))
                       /\ \A p \in parents : Len(fragment) >= Len(ListBucket(m, obj, p))
                       /\ \A j \in DOMAIN fragment, p \in parents :
                             /\ p \in Range(fragment[j].keys)
                             /\ LabelOf(fragment[j], p)
                                  = IF j <= Len(ListBucket(m, obj, p))
                                    THEN Smallest(ListBucket(m, obj, p), j) ELSE ""

\* an object with versions [v2, v1] and tags [b, a, a] is rendered: three
\* samples, the last with an empty version
C19_Witness ==
    \E uid \in Held(target) \cap DOMAIN target.objs, i \in DOMAIN target.Families :
        /\ target.objs[uid].versions = <<"v2", "v1">>
        /\ Len(target.metrics[uid][i]) = 3
        /\ "tags" \in Range(target.metrics[uid][i][1].keys)
        /\ LabelOf(target.metrics[uid][i][1], "versions") = "v1"
        /\ LabelOf(target.metrics[uid][i][2], "versions") = "v2"
        /\ LabelOf(target.metrics[uid][i][3], "versions") = ""
        /\ LabelOf(target.metrics[uid][i][3], "tags") = "b"

\* C20 as stated: a metric with label key v and label value o.spec.versions,
\* rendered for an object with spec.versions [v1, v2], gives two samples,
\* the first with v="v1" and the second with v="v2".
C20_VersionsUnderTheLabelKey ==
    \A uid \in Held(target) \cap DOMAIN target.objs, i \in DOMAIN target.Families :
        (/\ target.Families[i].Metrics = <<MetricVersions>>
         /\ target.objs[uid].versions = <<"v1", "v2">>)
            => /\ Len(target.metrics[uid][i]) = 2
               /\ \A j \in 1..2 : "v" \in Range(target.metrics[uid][i][j].keys)
               /\ LabelOf(target.metrics[uid][i][1], "v") = "v1"
               /\ LabelOf(target.metrics[uid][i][2], "v") = "v2"
\* the metrics entries of the UIDs other than those of the items are as they
\* were
OtherEntriesKept(items) ==
    \A u \in (DOMAIN target.metrics \cup DOMAIN target'.metrics) \ UIDsOf(items) :
        /\ u \in DOMAIN target.metrics
        /\ u \in DOMAIN target'.metrics
        /\ target'.metrics[u] = target.metrics[u]

\* C39 as stated: a call of Add, Update or Delete changes nothing of the
\* store but the metrics entry of the UID of its object, neither the headers
\* nor the entry of another UID nor anything else; a call with an item that
\* does not convert returns an error and changes nothing.
C39_OnlyTheEntryOfTheUID ==
    [][(ncalls' # ncalls /\ last'.op \in {"Add", "Update", "Delete"})
          => /\ target'.headers = target.headers
             /\ OtherEntriesKept(last'.items)
             /\ [target' EXCEPT !.metrics = target.metrics, !.objs = target.objs] = target
             /\ last'.err = convertToUnstructured(last'.items[1]).err
             /\ last'.err => target' = target]_vars

\* ---------------------------------------------------------------- claims on SpecUnits

\* C21 as stated: for every option whose flag is given on the command line,
\* with any value, the value Read leaves in the option is the value of the
\* flag, whatever the RSM_ variable of the option holds.
C21_GivenFlagWins ==
    options.read /\ ~options.panicked
        => \A name \in DOMAIN options.args :
               options.value[name] = FlagSet(name, options.args[name]).value

\* C22: a call of Resolve that has not returned is no older than the timeout
\* and the wait of a caller that can run, whether or not the goroutine has
\* ended its evaluation.
C22_ResolveReturnsInTime ==
    resolving.pc = "select" => resolving.clock <= timeout + Latency

\* a call returned on the timer while the evaluation was still going on
C22_Witness ==
    /\ resolving.pc = "returned"
    /\ resolving.via = "timer"
    /\ ~resolving.sent
    /\ resolving.clock >= timeout
    /\ resolving.output = defaultMapping(resolving.query)

\* C23 as stated: a call whose evaluation runs over the cost limit returns
\* the default mapping and is counted under the result label timeout.
C23_CostLimitCountsAsTimeout ==
    resolving.pc = "returned" /\ ActualCost(resolving.query) > costLimit
        => /\ resolving.output = defaultMapping(resolving.query)
           /\ resolving.counted = "timeout"

\* the query of the call did not resolve: the timer fired, the text does not
\* parse, the evaluation failed, or the type of the result is not supported
Unresolved ==
    \/ resolving.via = "timer"
    \/ parseFails(resolving.query)
    \/ evaluateProgram(resolving.query, CELObject).err
    \/ /\ evaluateProgram(resolving.query, CELObject).type
              \notin {"bool", "double", "int", "string", "uint"}
       /\ ~evaluateProgram(resolving.query, CELObject).native
    \/ evaluateProgram(resolving.query, CELObject).type = "timestamp"

\* C24 as stated: a call whose query did not resolve returns exactly the
\* mapping of the query to itself, never an empty or nil mapping.
C24_UnresolvedReturnsTheQuery ==
    resolving.pc = "returned" /\ Unresolved
        => resolving.output = defaultMapping(resolving.query)

\* the first resolver that is set, from the metric up to the store
FirstSet(metricResolver, familyResolver, storeResolver) ==
    IF metricResolver # ResolverTypeNone THEN metricResolver
    ELSE IF familyResolver # ResolverTypeNone THEN familyResolver
    ELSE IF storeResolver # ResolverTypeNone THEN storeResolver
    ELSE ResolverTypeUnstructured

\* the resolver a fragment shows it was rendered with
RenderedWith(text) ==
    IF Len(text) # 1 THEN ResolverTypeNone
    ELSE IF LabelOf(text[1], "cel") = CELObject.uid /\ LabelOf(text[1], "plain") = "metadata.name"
         THEN ResolverTypeCEL
    ELSE IF LabelOf(text[1], "plain") = CELObject.uid /\ LabelOf(text[1], "cel") = "o.metadata.name"
         THEN ResolverTypeUnstructured
    ELSE ResolverTypeNone

\* C25: a metric is rendered with its own resolver when that is set, else
\* with the family's, else with the store's, else with the unstructured
\* resolver; a name that is no resolver renders nothing.
C25_ResolverIsInherited ==
    inherited.done
        => RenderedWith(inherited.text)
               = IF FirstSet(inherited.metric, inherited.family, inherited.store)
                        \in {ResolverTypeCEL, ResolverTypeUnstructured}
                 THEN FirstSet(inherited.metric, inherited.family, inherited.store)
                 ELSE ResolverTypeNone

\* the store says cel, the family unstructured and the metric nothing: the
\* fragment is rendered with the unstructured resolver
C25_Witness ==
    /\ inherited.done
    /\ inherited.store = ResolverTypeCEL
    /\ inherited.family = ResolverTypeUnstructured
    /\ inherited.metric = ResolverTypeNone
    /\ RenderedWith(inherited.text) = ResolverTypeUnstructured

\* C26: whatever calls of Set were made, the status holds at most one
\* condition of a type, and a condition that is True or False carries the
\* reason of its type and status.
C26_OneConditionPerType ==
    /\ \A i, j \in DOMAIN rmmStatus.conditions :
           rmmStatus.conditions[i].Type = rmmStatus.conditions[j].Type => i = j
    /\ \A i \in DOMAIN rmmStatus.conditions :
           LET c == rmmStatus.conditions[i]
           IN  /\ c.Type = "Processed" /\ c.Status = ConditionTrue
                      => c.Reason = "EventHandlerSucceeded"
               /\ c.Type = "Processed" /\ c.Status = ConditionFalse
                      => c.Reason = "EventHandlerRunning"
               /\ c.Type = "Failed" /\ c.Status = ConditionTrue
                      => c.Reason = "EventHandlerFailed"
               /\ c.Type = "Failed" /\ c.Status = ConditionFalse
                      => c.Reason = "N/A"

\* three calls left both types in the status, Failed set twice
C26_Witness ==
    /\ rmmStatus.sets = 3
    /\ Len(rmmStatus.conditions) = 2
    /\ rmmStatus.conditions[1].Type = "Failed"
    /\ rmmStatus.conditions[1].Reason = "N/A"
    /\ rmmStatus.conditions[2].Type = "Processed"
    /\ rmmStatus.conditions[2].Reason = "EventHandlerSucceeded"

\* C34: the goroutine of a call that has ended its evaluation gets its
\* result onto the channel and ends, whether the caller still waits in the
\* select or has returned on the timer.
C34_EvaluatorDeliversAndEnds == resolving.evaluated ~> resolving.sent

\* the goroutine sent its result after the caller had returned on the timer
C34_Witness ==
    /\ resolving.pc = "returned"
    /\ resolving.via = "timer"
    /\ resolving.evaluated
    /\ resolving.sent
    /\ resolving.counters.timeout = 1

BuiltFrom(entry, cfg) ==
    /\ ~parse(cfg).err
    /\ Len(entry) = Len(parse(cfg).Stores)
    /\ \A i \in DOMAIN entry : storeObjs[entry[i]] = newStore(parse(cfg).Stores[i])

\* C27 as stated: with every add and update event of an RMM handled, by any
\* number of workers in any interleaving, the registry entry of the RMM holds
\* one store per store spec of a single configuration, with no store of
\* another handling and no duplicate left in it.
C27_EntryIsOneConfiguration ==
    Quiescent
        => \A uid \in DOMAIN stores : \E cfg \in ConfigTexts : BuiltFrom(stores[uid], cfg)

\* a worker is handling an item
Handling(w) == worker[w].pc # "idle"

\* C28: no two workers handle the same work item at the same time, and an
\* item that is added while a worker handles it is not in the queue for
\* another worker to take before that handling has called Done.
C28_OneWorkerPerItem ==
    /\ \A v, w \in Workers :
           (v # w /\ Handling(v) /\ Handling(w)) => worker[v].item # worker[w].item
    /\ \A w \in Workers :
           Handling(w) => /\ worker[w].item \in workqueue.processing
                          /\ worker[w].item \notin Range(workqueue.queue)

\* the update item of the RMM was added again while a worker handles it; the
\* other worker is idle and finds nothing to take
C28_Witness ==
    \E v, w \in Workers :
        /\ Handling(v)
        /\ ~Handling(w)
        /\ worker[v].item[2] = updateEvent
        /\ worker[v].item \in workqueue.dirty
        /\ workqueue.queue = <<>>

\* C29: the handling of a dequeued item ends only by Done, which it calls
\* once, as its last call; before it, when the handler has returned, it calls
\* Forget if the handler returned no error and AddRateLimited if it returned
\* one, and never both.
C29_ForgetOrRequeueThenDone ==
    [][\A w \in Workers :
        /\ (Handling(w) /\ worker'[w].pc = "idle")
               => /\ worker[w].pc = "done"
                  /\ worker[w].item \notin workqueue'.processing
        /\ (Handling(w) /\ worker[w].pc # "done" /\ worker'[w].pc # worker[w].pc)
               => /\ worker'[w].pc # "idle"
                  /\ worker[w].item \in workqueue'.processing
        /\ (worker[w].pc # "done" /\ worker'[w].pc = "done")
               => /\ worker[w].pc = "forget"
                  /\ IF worker[w].err
                     THEN /\ worker[w].item \in workqueue'.waiting
                          /\ worker[w].item \in DOMAIN workqueue'.failures
                     ELSE /\ worker[w].item \notin DOMAIN workqueue'.failures
                          /\ workqueue'.waiting = workqueue.waiting
        /\ (worker[w].pc # "forget" /\ worker'[w].pc # "done")
               => /\ workqueue'.waiting = workqueue.waiting
                  /\ workqueue'.failures = workqueue.failures]_vars

\* a worker has called Forget for the update item it handled without error
\* and is about to call Done
C29_Witness ==
    \E w \in Workers :
        /\ worker[w].pc = "done"
        /\ ~worker[w].err
        /\ worker[w].dispatched
        /\ worker[w].item[2] = updateEvent
        /\ worker[w].item \in workqueue.processing
        /\ worker[w].item \notin DOMAIN workqueue.failures

\* C30: the writes of labels and of status the handler makes on an RMM add no
\* work item, so that, the users making finitely many writes and the workers
\* running on, the workqueue becomes empty, with no item being handled, and
\* stays so.
C30_QueueDrains ==
    <>[](/\ workqueue.queue = <<>>
         /\ workqueue.dirty = {}
         /\ workqueue.processing = {})

\* the handler has written the labels and the condition of an RMM the user
\* edited, every event is handled and nothing is queued
C30_Witness ==
    /\ Quiescent
    /\ userOps = MaxUserOps
    /\ \E name \in Names :
           /\ Exists(api[name])
           /\ api[name].managed
           /\ api[name].processed = "True"

\* the program has stopped: the servers are closed, the queue is shut down
\* and empty, and no worker holds an item
Stopped ==
    /\ servers = [self |-> "closed", main |-> "closed"]
    /\ workqueue.shuttingDown
    /\ workqueue.queue = <<>>
    /\ workqueue.processing = {}
    /\ \A w \in Workers : worker[w].pc = "idle"

\* C36 as stated: once Run has returned and the workqueue is shut down, a
\* worker that is idle, having finished the item it held, takes no further
\* item.
C36_WorkersStopDequeuing ==
    [][workqueue.shuttingDown
          => \A w \in Workers : worker[w].pc = "idle" => worker'[w].pc = "idle"]_vars

\* C36, amended: after the root context is cancelled the servers are shut
\* down, Run returns and the workqueue is shut down; the workers go on taking
\* the items the queue still holds until it is empty, and from then on the
\* program has stopped.
C36_DrainsThenStops == ("root" \in cancelled) ~> []Stopped

\* the program has stopped, and the RMM a user created was handled under the
\* cancelled context: no label and no condition was written
C36_Witness ==
    /\ Stopped
    /\ \E name \in Names :
           /\ Exists(api[name])
           /\ ~api[name].managed
           /\ api[name].processed = ""

\* C37: no step takes Failed=True off an RMM that carries it, and no write of
\* a handler sets the Failed condition to False.
C37_FailedIsNeverCleared ==
    [][/\ \A name \in Names :
              (/\ Exists(api[name])
               /\ api[name].failed = "True"
               /\ Exists(api'[name])
               /\ api'[name].uid = api[name].uid)
                  => api'[name].failed = "True"
       /\ \A w \in Workers : \A i \in DOMAIN worker'[w].wrote :
              worker'[w].wrote[i] # <<"Failed", "False">>]_vars

\* an RMM whose configuration failed to parse was edited and then processed:
\* it carries Failed=True and Processed=True
C37_Witness ==
    \E name \in Names :
        /\ Exists(api[name])
        /\ api[name].failed = "True"
        /\ api[name].processed = "True"
        /\ api[name].cfg \in {"c1", "c2"}

\* C38 as stated: while a worker handles one item the events-processed
\* counter is incremented at most once for it, with the status success or
\* failed.
C38_OneIncrementPerItem ==
    \A w \in Workers :
        /\ Len(worker[w].events) <= 1
        /\ \A i \in DOMAIN worker[w].events : worker[w].events[i] \in {"success", "failed"}

StoreAt(sc) == sc.ids[sc.k]

\* C31: a scrape never reads a store while an Add, Update or Delete is in
\* progress on it, and all families of one store in one scrape are written
\* from the same set of objects.
C31_ScrapeReadsUnderLock ==
    \A t \in Scrapers :
        /\ ~scraper[t].torn
        /\ scraper[t].pc = "write" =>
               /\ t \in mutex[StoreAt(scraper[t])].readers
               /\ feeder[StoreAt(scraper[t])].pc \notin {"locked", "applied"}

\* a scrape is between the two families of a store while a reflector waits
\* to change that store
C31_Witness ==
    \E t \in Scrapers :
        /\ scraper[t].pc = "write"
        /\ scraper[t].i = 2
        /\ feeder[StoreAt(scraper[t])].pc = "waiting"
        /\ feeder[StoreAt(scraper[t])].op = "Add"

\* C32: the registry is never written by a worker while a scrape handler
\* ranges over it without synchronisation.
C32_RegistryNeverRaced == registrar.race = "none"

\* C33: scrapes and store mutations do not deadlock: every reader that
\* waits for a store lock gets it, every reflector that waits for a store
\* lock gets it, and every scrape that began ends.
C33_LocksGrantedScrapesEnd ==
    /\ \A t \in Scrapers :
           (scraper[t].pc = "blocked") ~> (scraper[t].pc # "blocked")
    /\ \A id \in DOMAIN LockConfiguration :
           (feeder[id].pc = "waiting") ~> (feeder[id].pc = "locked")
    /\ \A t \in Scrapers :
           (scraper[t].pc # "idle") ~> (scraper[t].pc = "idle")

\* under lockAllStores, a scrape that holds the first store of an entry waits
\* for the second behind a reflector, which waits for the other scrape
C33_Witness ==
    \E t \in Scrapers, other \in Scrapers :
        /\ lockOps.writer = "allStores"
        /\ scraper[t].pc = "blocked"
        /\ scraper[t].k = 2
        /\ mutex[StoreAt(scraper[t])].writer = "waiting"
        /\ other \in mutex[StoreAt(scraper[t])].readers

====
